---- MODULE Spec2Model ----
(***************************************************************************)
(* Model of the retrieval subsystem of law_rag:                            *)
(*   - DocumentProcessor.clean_text / split_into_chunks                    *)
(*     (src/embeddings/processor.py)                                       *)
(*   - DocumentRetriever cache, rankers and hybrid fusion                  *)
(*     (src/rag/retriever.py)                                              *)
(* Texts are sequences of one-character strings.                           *)
(***************************************************************************)
EXTENDS Integers, Sequences, FiniteSets, TLC

----------------------------------------------------------------------------
(* Bounds of the model *)

MaxTextLen == 7
MaxChunkSize == 3
MaxOverlap == 3

(* Program constants *)
CHUNK_SIZE == 1000
CHUNK_OVERLAP == 200

(* The characters of a text: a word character, a period, a blank and a     *)
(* character outside the allow-list of clean_text.                         *)
Chars == {"a", ".", " ", "@"}

Max(a, b) == IF a >= b THEN a ELSE b
Min(a, b) == IF a <= b THEN a ELSE b

RECURSIVE SeqsUpTo(_, _)
SeqsUpTo(S, n) ==
    IF n = 0 THEN {<<>>}
    ELSE LET shorter == SeqsUpTo(S, n - 1)
         IN  shorter \cup {Append(s, c) : s \in {t \in shorter : Len(t) = n - 1}, c \in S}

----------------------------------------------------------------------------
(* DocumentProcessor.clean_text *)

(* re.sub(r'\s+', ' ', text): every run of blanks becomes one blank *)
RECURSIVE CollapseWhitespace(_)
CollapseWhitespace(s) ==
    IF Len(s) = 0 THEN <<>>
    ELSE IF Len(s) >= 2 /\ s[1] = " " /\ s[2] = " " THEN CollapseWhitespace(Tail(s))
    ELSE <<s[1]>> \o CollapseWhitespace(Tail(s))

(* re.sub(r'[^\w\s\.\,...]', '', text): characters off the allow-list go *)
RemoveSpecial(s) == SelectSeq(s, LAMBDA c : c # "@")

(* re.sub(r'\.{3,}', '...', text): a run of 3+ periods becomes 3 periods *)
RECURSIVE CollapseDots(_)
CollapseDots(s) ==
    IF Len(s) = 0 THEN <<>>
    ELSE IF Len(s) >= 4 /\ s[1] = "." /\ s[2] = "." /\ s[3] = "." /\ s[4] = "."
         THEN CollapseDots(Tail(s))
    ELSE <<s[1]>> \o CollapseDots(Tail(s))

(* str.strip() *)
RECURSIVE LStrip(_)
LStrip(s) == IF Len(s) > 0 /\ s[1] = " " THEN LStrip(Tail(s)) ELSE s

RECURSIVE RStrip(_)
RStrip(s) ==
    IF Len(s) > 0 /\ s[Len(s)] = " " THEN RStrip(SubSeq(s, 1, Len(s) - 1)) ELSE s

Strip(s) == RStrip(LStrip(s))

clean_text(t) == Strip(CollapseDots(RemoveSpecial(CollapseWhitespace(t))))

----------------------------------------------------------------------------
(* Python string primitives used by split_into_chunks; positions are the   *)
(* 0-based positions of the source.                                        *)

(* s[a:b] for 0 <= a, 0 <= b; b is clipped to len(s) *)
Slice(s, a, b) == IF a >= Min(b, Len(s)) THEN <<>> ELSE SubSeq(s, a + 1, Min(b, Len(s)))

(* slice-index adjustment of str.rfind(sub, start, end) *)
AdjustIndex(i, n) == IF i < 0 THEN Max(i + n, 0) ELSE Min(i, n)

(* str.rfind(c, lo, hi) for a one-character c: highest position p with     *)
(* lo' <= p < hi' and s[p] = c, or -1                                      *)
rfind(s, c, lo, hi) ==
    LET a == AdjustIndex(lo, Len(s))
        b == AdjustIndex(hi, Len(s))
        hits == {p \in a .. (b - 1) : s[p + 1] = c}
    IN  IF hits = {} THEN -1 ELSE CHOOSE p \in hits : \A r \in hits : r <= p

(* Python None and a present value *)
None == [isNone |-> TRUE, val |-> <<>>]
Some(x) == [isNone |-> FALSE, val |-> x]

NoCall == [name |-> "none", query |-> <<>>, qvec |-> <<>>, top_k |-> 0]

----------------------------------------------------------------------------
(* State of one call of split_into_chunks *)

VARIABLES
    chunk_size,     \* argument chunk_size (0: omitted)
    overlap,        \* argument overlap (0: omitted)
    cleaned_text,   \* local cleaned_text = self.clean_text(text)
    start,          \* local start
    end,            \* local end of the latest window
    chunks,         \* local chunks: the segments emitted so far
    chunk_index,    \* local chunk_index
    pc,             \* "loop": at the while test, "done": returned
    \* DocumentRetriever and the segment store
    embedding_model,    \* self.embedding_model: TRUE when a model was loaded
    store,              \* rows of table document_chunks, in id order
    chunks_cache,       \* self._chunks_cache
    embeddings_cache,   \* self._embeddings_cache
    call,               \* the call of the retriever in progress: its name and arguments
    semantic_results,   \* hybrid_search: local semantic_results
    keyword_results,    \* hybrid_search: local keyword_results
    result,             \* what the latest query call returned
    \* the thread inside refresh_cache
    rpc,                \* its position
    r_chunks,           \* local chunks of the load method
    r_i,                \* position of the load loop in r_chunks
    embeddings_list,    \* local embeddings_list
    pre_cache,          \* the caches when refresh_cache was entered
    \* the thread inside a query method
    qpc,                \* its position
    q_matrix,           \* the matrix that local similarities was computed from
    q_order,            \* local np.argsort(similarities)
    fault,              \* the query method was left by an uncaught exception
    saw_none,           \* the query read a cache that the running refresh cleared
    own_load,           \* the query loaded from the store during the refresh
    \* DocumentProcessor
    processor_model,    \* self.embedding_model: TRUE when a model was loaded
    \* the database tables, the document directory and the ingestion runs
    documents,          \* rows of table documents, in id order
    db_chunks,          \* rows of table document_chunks, in id order
    files,              \* the .txt files of the document directory: name -> content
    ipc,                \* position of each ingestion run
    job,                \* locals of each ingestion run
    context_call,       \* the latest get_document_context call: its arguments
    context,            \* what that call returned
    \* the globals of app.py and the request threads inside ensure_rag_initialized
    rag_initialized,    \* global rag_initialized
    rag_initializing,   \* global rag_initializing
    doc_processor,      \* global doc_processor: 0 is None, else the thread that built it
    retriever,          \* global retriever: 0 is None, else the thread that built it
    apc,                \* position of each request thread
    ensure_result,      \* what ensure_rag_initialized returned to each request handler
    constructed         \* how many objects of each class have been constructed

splitVars == <<chunk_size, overlap, cleaned_text, start, end, chunks, chunk_index, pc>>

retrVars == <<embedding_model, store, chunks_cache, embeddings_cache, call,
              semantic_results, keyword_results, result>>

threadVars == <<rpc, r_chunks, r_i, embeddings_list, pre_cache,
                qpc, q_matrix, q_order, fault, saw_none, own_load>>

procVars == <<processor_model>>

ingestVars == <<documents, db_chunks, files, ipc, job, context_call, context>>

appVars == <<rag_initialized, rag_initializing, doc_processor, retriever,
             apc, ensure_result, constructed>>

vars == <<splitVars, retrVars, threadVars, procVars, ingestVars, appVars>>

(* chunk_size = chunk_size or Config.CHUNK_SIZE *)
EffChunkSize == IF chunk_size = 0 THEN CHUNK_SIZE ELSE chunk_size

(* overlap = overlap or Config.CHUNK_OVERLAP *)
EffOverlap == IF overlap = 0 THEN CHUNK_OVERLAP ELSE overlap

WindowEnd_Unclipped(s) == s + EffChunkSize

(* the end of the window that starts at s: lines 72-84 *)
WindowEnd(s) ==
    LET n == Len(cleaned_text)
        e0 == Min(s + EffChunkSize, n)
        sentence_end == rfind(cleaned_text, ".", e0 - EffOverlap, e0)
        space_pos == rfind(cleaned_text, " ", e0 - EffOverlap, e0)
    IN  IF e0 < n
        THEN IF sentence_end # -1 /\ sentence_end > s THEN sentence_end + 1
             ELSE IF space_pos # -1 /\ space_pos > s THEN space_pos
             ELSE e0
        ELSE e0

NextStart_NoProgress(s, e) == Max(e - EffOverlap, s)

(* start = max(end - overlap, start + 1): line 99 *)
NextStart(s, e) == Max(e - EffOverlap, s + 1)

(* if start >= end: break: lines 102-103 *)
BreakGuard(s, e) == s >= e

(* no retriever has been constructed: the state of the retriever variables *)
(* while split_into_chunks is examined on its own                          *)
RetrieverIdle ==
    /\ embedding_model = FALSE
    /\ store = <<>>
    /\ chunks_cache = None
    /\ embeddings_cache = None
    /\ call = NoCall
    /\ semantic_results = <<>>
    /\ keyword_results = <<>>
    /\ result = <<>>

(* no thread is inside refresh_cache or a query method *)
ThreadsIdle ==
    /\ rpc = "idle"
    /\ r_chunks = <<>>
    /\ r_i = 0
    /\ embeddings_list = <<>>
    /\ pre_cache = [cc |-> None, ec |-> None]
    /\ qpc = "idle"
    /\ q_matrix = <<>>
    /\ q_order = <<>>
    /\ fault = FALSE
    /\ saw_none = FALSE
    /\ own_load = FALSE

(* no DocumentProcessor has been constructed *)
ProcessorIdle == processor_model = FALSE

(* the two request threads that can run an ingestion at the same time *)
Runs == {1, 2}

(* the locals of an ingestion run that has not started; document_id 0      *)
(* stands for None                                                         *)
NoJob == [kind |-> "none", filename |-> "", content |-> <<>>, document_id |-> 0,
          batch |-> <<>>, all_chunks |-> <<>>, inserted |-> "none",
          embeddings |-> "none", returned |-> "none", processed |-> 0, failed |-> 0]

NoContextCall == [chunk_id |-> 0, context_size |-> 0, called |-> FALSE]

(* an empty database, an empty directory and no ingestion run *)
IngestIdle ==
    /\ documents = <<>>
    /\ db_chunks = <<>>
    /\ files = <<>>
    /\ ipc = [t \in Runs |-> "idle"]
    /\ job = [t \in Runs |-> NoJob]
    /\ context_call = NoContextCall
    /\ context = <<>>

(* the request threads that can be inside ensure_rag_initialized at the    *)
(* same time                                                               *)
Requests == {1, 2}

(* the globals as app.py lines 25-28 set them, and no request in progress *)
AppIdle ==
    /\ rag_initialized = FALSE
    /\ rag_initializing = FALSE
    /\ doc_processor = 0
    /\ retriever = 0
    /\ apc = [t \in Requests |-> "idle"]
    /\ ensure_result = [t \in Requests |-> "none"]
    /\ constructed = [DocumentProcessor |-> 0, DocumentRetriever |-> 0]

(* no call of split_into_chunks is in progress *)
SplitIdle ==
    /\ chunk_size = 0
    /\ overlap = 0
    /\ cleaned_text = <<>>
    /\ start = 0
    /\ end = 0
    /\ chunks = <<>>
    /\ chunk_index = 0
    /\ pc = "done"

InitSplit ==
    /\ chunk_size \in 0 .. MaxChunkSize
    /\ overlap \in 0 .. MaxOverlap
    /\ \E text \in SeqsUpTo(Chars, MaxTextLen) : cleaned_text = clean_text(text)
    /\ start = 0
    /\ end = 0
    /\ chunks = <<>>
    /\ chunk_index = 0
    /\ pc = "loop"
    /\ RetrieverIdle
    /\ ThreadsIdle
    /\ ProcessorIdle
    /\ IngestIdle
    /\ AppIdle

(* one iteration of the while loop: lines 70-103 *)
SplitIteration ==
    /\ pc = "loop"
    /\ start < Len(cleaned_text)
    /\ LET e == WindowEnd(start)
           chunk_content == Strip(Slice(cleaned_text, start, e))
           emit == chunk_content # <<>>
           s2 == NextStart(start, e)
       IN  /\ end' = e
           /\ chunks' = IF emit
                        THEN Append(chunks, [index |-> chunk_index,
                                             content |-> chunk_content,
                                             start_position |-> start,
                                             end_position |-> e,
                                             size |-> Len(chunk_content)])
                        ELSE chunks
           /\ chunk_index' = IF emit THEN chunk_index + 1 ELSE chunk_index
           /\ start' = s2
           /\ pc' = IF BreakGuard(s2, e) THEN "done" ELSE "loop"
    /\ UNCHANGED <<chunk_size, overlap, cleaned_text>>
    /\ UNCHANGED <<retrVars, threadVars, procVars, ingestVars, appVars>>

(* the while test fails: line 70, then return chunks: line 105 *)
SplitReturn ==
    /\ pc = "loop"
    /\ ~(start < Len(cleaned_text))
    /\ pc' = "done"
    /\ UNCHANGED <<chunk_size, overlap, cleaned_text, start, end, chunks, chunk_index>>
    /\ UNCHANGED <<retrVars, threadVars, procVars, ingestVars, appVars>>

NextSplit == SplitIteration \/ SplitReturn

SpecSplit == InitSplit /\ [][NextSplit]_vars

----------------------------------------------------------------------------
(* The segment store and the inputs of the retriever *)

MaxStore == 2
MaxQueryWords == 2
MaxK == 2

TOP_K_RESULTS == 5

(* Words of segment and query texts: "Tax" lower-cases to "tax", "taxes"   *)
(* is an inflection of "tax".                                              *)
Words == {"tax", "Tax", "taxes"}

(* str.lower() on a word *)
Lower(w) == IF w = "Tax" THEN "tax" ELSE w

(* Segment texts, already split at whitespace *)
Contents == {<<"tax">>, <<"Tax", "taxes">>, <<"taxes">>}

(* Embedding vectors; all have an integer Euclidean norm *)
Vectors == {<<1, 0>>, <<0, 1>>, <<7, 24>>}

Queries == SeqsUpTo(Words, MaxQueryWords) \ {<<>>}

QueryVectors == {<<1, 0>>, <<4, 3>>}

RECURSIVE Factorial(_)
Factorial(n) == IF n <= 1 THEN 1 ELSE n * Factorial(n - 1)

(* Scores are exact rationals, kept as integers in units of 1 / SCALE.     *)
(* SCALE is a multiple of every denominator that occurs: 625 for a cosine  *)
(* of two vectors with norms 1, 5 or 25, the number of query words for a   *)
(* keyword score, 10 for the fusion weights 0.3 and 0.5 and the floor 0.3. *)
SCALE == 6250 * Factorial(MaxQueryWords)

(* seq[:k] for k >= 0 *)
Take(seq, k) == SubSeq(seq, 1, Min(k, Len(seq)))

Reverse(seq) == [i \in 1 .. Len(seq) |-> seq[Len(seq) + 1 - i]]

----------------------------------------------------------------------------
(* Store reads: DatabaseManager.get_all_chunks(_with_embeddings) *)

(* the cache row built from a store row: retriever.py lines 43-51, 78-86 *)
CacheRow(chunk) == [id |-> chunk.id, content |-> chunk.content]

get_all_chunks == store

get_all_chunks_with_embeddings == SelectSeq(store, LAMBDA c : ~c.embedding.isNone)

(* _load_chunks_and_embeddings applied to caches cc, ec: the caches after  *)
(* the call and its return value                                           *)
load_chunks_and_embeddings(cc, ec) ==
    LET found == get_all_chunks_with_embeddings
        rows == SelectSeq(found, LAMBDA c : ~c.embedding.isNone)
    IN  IF found = <<>>
        THEN [ok |-> FALSE, cc |-> cc, ec |-> ec]
        ELSE [ok |-> TRUE,
              cc |-> Some([i \in 1 .. Len(rows) |-> CacheRow(rows[i])]),
              ec |-> Some([i \in 1 .. Len(rows) |-> rows[i].embedding.val])]

load_chunks_for_keyword_search_VectorOnly ==
    Some([i \in 1 .. Len(get_all_chunks_with_embeddings) |->
             CacheRow(get_all_chunks_with_embeddings[i])])

(* _load_chunks_for_keyword_search: the new value of _chunks_cache *)
load_chunks_for_keyword_search ==
    Some([i \in 1 .. Len(get_all_chunks) |-> CacheRow(get_all_chunks[i])])

----------------------------------------------------------------------------
(* Semantic ranker: search_similar_chunks lines 119-144 *)

Dot(u, v) == u[1] * v[1] + u[2] * v[2]

Norm(v) == CHOOSE n \in 0 .. 25 : n * n = Dot(v, v)

(* sklearn cosine_similarity of two vectors, in units of 1 / SCALE *)
cosine_similarity(u, v) == (Dot(u, v) * SCALE) \div (Norm(u) * Norm(v))

(* the floor of line 138 *)
SIMILARITY_FLOOR == (3 * SCALE) \div 10

RowOrders(n) == {p \in [1 .. n -> 1 .. n] : \A i, j \in 1 .. n : i # j => p[i] # p[j]}

(* np.argsort(similarities): the row numbers in ascending order of score;  *)
(* the default sort is not stable, rows of equal score come in any order   *)
ArgsortOrders(similarities) ==
    {p \in RowOrders(Len(similarities)) :
        \A i, j \in 1 .. Len(similarities) :
            i < j => similarities[p[i]] <= similarities[p[j]]}

SemanticRank_NoFloor(cc, ec, qvec, top_k, order) ==
    LET top_indices == Take(Reverse(order), top_k)
    IN  [i \in 1 .. Len(top_indices) |->
            cc[top_indices[i]] @@
            [similarity_score |-> cosine_similarity(qvec, ec[top_indices[i]])]]

(* lines 125-140 for the caches cc (rows) and ec (matrix), with the        *)
(* argsort outcome `order`; an index outside cc raises inside the try      *)
(* block and the call returns [] (lines 142-144)                           *)
SemanticRank(cc, ec, qvec, top_k, order) ==
    LET top_indices == Take(Reverse(order), top_k)
        scored == [i \in 1 .. Len(top_indices) |->
                     IF top_indices[i] <= Len(cc)
                     THEN cc[top_indices[i]] @@
                          [similarity_score |-> cosine_similarity(qvec, ec[top_indices[i]])]
                     ELSE [id |-> 0]]
    IN  IF \E i \in 1 .. Len(top_indices) : top_indices[i] > Len(cc)
        THEN <<>>
        ELSE SelectSeq(scored, LAMBDA r : r.similarity_score > SIMILARITY_FLOOR)

Similarities(ec, qvec) == [i \in 1 .. Len(ec) |-> cosine_similarity(qvec, ec[i])]

----------------------------------------------------------------------------
(* Lexical ranker: search_by_keywords lines 154-172 *)

(* set(text.lower().split()) *)
WordSet(ws) == {Lower(ws[i]) : i \in 1 .. Len(ws)}

(* sorted(rows, key, reverse=True): stable, rows of equal key keep their   *)
(* order                                                                   *)
RECURSIVE StableOrderDesc(_, _)
(* the positions 1 .. n of keys in descending order of key, equal keys in  *)
(* ascending order of position                                             *)
StableOrderDesc(keys, n) ==
    IF n = 0 THEN <<>>
    ELSE LET rest == StableOrderDesc(keys, n - 1)
             before == SelectSeq(rest, LAMBDA i : keys[i] >= keys[n])
             after == SelectSeq(rest, LAMBDA i : keys[i] < keys[n])
         IN  before \o <<n>> \o after

(* rows in the order sorted() gives them for the keys keys[i] of rows[i] *)
SortedDesc(rows, keys) ==
    LET order == StableOrderDesc(keys, Len(rows))
    IN  [i \in 1 .. Len(rows) |-> rows[order[i]]]

(* key=lambda x: x['keyword_score'] *)
KeywordScores(rows) == [i \in 1 .. Len(rows) |-> rows[i].keyword_score]

KeywordRank_Jaccard(cc, query, top_k) ==
    LET query_words == WordSet(query)
        Scored(i) ==
            LET intersection == query_words \cap WordSet(cc[i].content)
                union == query_words \cup WordSet(cc[i].content)
            IN  cc[i] @@ [keyword_score |->
                              (Cardinality(intersection) * SCALE) \div Cardinality(union),
                          matched_words |-> intersection]
        all == [i \in 1 .. Len(cc) |-> Scored(i)]
        results == SelectSeq(all, LAMBDA r : r.matched_words # {})
    IN  Take(SortedDesc(results, KeywordScores(results)), top_k)

KeywordRank_CountsRepeats(cc, query, top_k) ==
    LET query_words == WordSet(query)
        Scored(i) ==
            LET intersection == query_words \cap WordSet(cc[i].content)
                hits == {w \in 1 .. Len(query) : Lower(query[w]) \in intersection}
            IN  cc[i] @@ [keyword_score |->
                              (Cardinality(hits) * SCALE) \div Cardinality(query_words),
                          matched_words |-> intersection]
        all == [i \in 1 .. Len(cc) |-> Scored(i)]
        results == SelectSeq(all, LAMBDA r : r.matched_words # {})
    IN  Take(SortedDesc(results, KeywordScores(results)), top_k)

KeywordRank(cc, query, top_k) ==
    LET query_words == WordSet(query)
        Scored(i) ==
            LET intersection == query_words \cap WordSet(cc[i].content)
            IN  cc[i] @@ [keyword_score |->
                              (Cardinality(intersection) * SCALE) \div Cardinality(query_words),
                          matched_words |-> intersection]
        all == [i \in 1 .. Len(cc) |-> Scored(i)]
        results == SelectSeq(all, LAMBDA r : r.matched_words # {})
    IN  Take(SortedDesc(results, KeywordScores(results)), top_k)

----------------------------------------------------------------------------
(* Hybrid combiner: hybrid_search lines 189-214 *)

HasId(combined, id) == \E i \in 1 .. Len(combined) : combined[i].id = id

(* combined_results[id] = row: a new key goes last, an old key keeps its   *)
(* place                                                                   *)
Put(combined, row) ==
    IF HasId(combined, row.id)
    THEN [i \in 1 .. Len(combined) |->
             IF combined[i].id = row.id THEN row ELSE combined[i]]
    ELSE Append(combined, row)

(* lines 193-196 *)
RECURSIVE AddSemantic(_, _)
AddSemantic(combined, sem) ==
    IF sem = <<>> THEN combined
    ELSE AddSemantic(Put(combined, [final_score |-> sem[1].similarity_score] @@ sem[1]),
                     Tail(sem))

(* the fused score of a segment found by both rankers: line 203 *)
FuseBoth(final_score, keyword_score) == final_score + (keyword_score * 3) \div 10

FuseKeywordOnly_Unpenalised(keyword_score) == keyword_score

(* the fused score of a segment found by the lexical ranker only: line 207 *)
FuseKeywordOnly(keyword_score) == (keyword_score * 5) \div 10

(* lines 199-208 *)
RECURSIVE AddKeyword(_, _)
AddKeyword(combined, kw) ==
    IF kw = <<>> THEN combined
    ELSE LET r == kw[1]
             Merge(c) == [final_score |-> FuseBoth(c.final_score, r.keyword_score),
                          matched_words |-> r.matched_words] @@ c
             next == IF HasId(combined, r.id)
                     THEN [i \in 1 .. Len(combined) |->
                              IF combined[i].id = r.id THEN Merge(combined[i])
                              ELSE combined[i]]
                     ELSE Append(combined,
                                 [final_score |-> FuseKeywordOnly(r.keyword_score)] @@ r)
         IN  AddKeyword(next, Tail(kw))

(* key=lambda x: x['final_score'] *)
FinalScores(rows) == [i \in 1 .. Len(rows) |-> rows[i].final_score]

Fuse_Untruncated(sem, kw, top_k) ==
    LET final_results == AddKeyword(AddSemantic(<<>>, sem), kw)
    IN  SortedDesc(final_results, FinalScores(final_results))

(* lines 190-214 *)
Fuse(sem, kw, top_k) ==
    LET final_results == AddKeyword(AddSemantic(<<>>, sem), kw)
    IN  Take(SortedDesc(final_results, FinalScores(final_results)), top_k)

----------------------------------------------------------------------------
(* The query operations of DocumentRetriever, run without interference.    *)
(* Each yields the set of possible outcomes [cc, ec, result]: the caches   *)
(* after the call and the returned list.                                   *)

(* top_k = top_k or Config.TOP_K_RESULTS; 0 stands for an omitted top_k *)
TopK(k) == IF k = 0 THEN TOP_K_RESULTS ELSE k

search_by_keywords_NoCopy(cc, ec, query, k) ==
    LET top_k == TopK(k)
        cc1 == IF cc.isNone THEN load_chunks_for_keyword_search ELSE cc
        Marked(row) ==
            LET intersection == WordSet(query) \cap WordSet(row.content)
            IN  IF intersection = {} THEN row
                ELSE [keyword_score |->
                          (Cardinality(intersection) * SCALE) \div Cardinality(WordSet(query)),
                      matched_words |-> intersection] @@ row
    IN  [cc |-> Some([i \in 1 .. Len(cc1.val) |-> Marked(cc1.val[i])]), ec |-> ec,
         result |-> KeywordRank(cc1.val, query, top_k)]

search_by_keywords_AlwaysLoads(cc, ec, query, k) ==
    LET top_k == TopK(k)
        cc1 == load_chunks_for_keyword_search
    IN  [cc |-> cc1, ec |-> ec, result |-> KeywordRank(cc1.val, query, top_k)]

(* search_by_keywords(query, k) on caches cc, ec: lines 146-172 *)
search_by_keywords(cc, ec, query, k) ==
    LET top_k == TopK(k)
        cc1 == IF cc.isNone THEN load_chunks_for_keyword_search ELSE cc
    IN  [cc |-> cc1, ec |-> ec, result |-> KeywordRank(cc1.val, query, top_k)]

(* search_similar_chunks(query, k) on caches cc, ec: lines 103-144 *)
search_similar_chunks(cc, ec, query, qvec, k) ==
    LET top_k == TopK(k)
        ld == IF cc.isNone \/ ec.isNone
              THEN load_chunks_and_embeddings(cc, ec)
              ELSE [ok |-> TRUE, cc |-> cc, ec |-> ec]
    IN  IF ~embedding_model THEN {search_by_keywords(cc, ec, query, top_k)}
        ELSE IF ~ld.ok THEN {[cc |-> ld.cc, ec |-> ld.ec, result |-> <<>>]}
        ELSE IF Len(ld.cc.val) = 0 THEN {[cc |-> ld.cc, ec |-> ld.ec, result |-> <<>>]}
        ELSE {[cc |-> ld.cc, ec |-> ld.ec,
               result |-> SemanticRank(ld.cc.val, ld.ec.val, qvec, top_k, order)] :
                 order \in ArgsortOrders(Similarities(ld.ec.val, qvec))}

(* the top_k that hybrid_search passes to the semantic ranker: line 184 *)
HybridSemanticK(top_k) == top_k * 2

HybridKeywordK_Doubled(top_k) == top_k * 2

(* the top_k that hybrid_search passes to the lexical ranker: lines 181, 187 *)
HybridKeywordK(top_k) == top_k

(* hybrid_search(query, k) on caches cc, ec: lines 174-214; the outcome    *)
(* also carries the two ranker outputs                                     *)
hybrid_search(cc, ec, query, qvec, k) ==
    LET top_k == TopK(k)
    IN  IF ~embedding_model
        THEN {[sem |-> <<>>, kw |-> <<>>] @@ search_by_keywords(cc, ec, query, HybridKeywordK(top_k))}
        ELSE {LET kw == search_by_keywords(sem.cc, sem.ec, query, HybridKeywordK(top_k))
              IN  [cc |-> kw.cc, ec |-> kw.ec, sem |-> sem.result, kw |-> kw.result,
                   result |-> Fuse(sem.result, kw.result, top_k)] :
                sem \in search_similar_chunks(cc, ec, query, qvec, HybridSemanticK(top_k))}

----------------------------------------------------------------------------
(* The retriever and the store, one operation at a time *)

InitRetriever ==
    /\ embedding_model \in BOOLEAN
    /\ store = <<>>
    /\ chunks_cache = None
    /\ embeddings_cache = None
    /\ call = NoCall
    /\ semantic_results = <<>>
    /\ keyword_results = <<>>
    /\ result = <<>>
    /\ processor_model \in BOOLEAN
    /\ SplitIdle
    /\ ThreadsIdle
    /\ IngestIdle
    /\ AppIdle

(* DatabaseManager.insert_chunk: a new row, with or without a vector *)
InsertChunk ==
    /\ call = NoCall
    /\ Len(store) < MaxStore
    /\ \E content \in Contents, embedding \in {None} \cup {Some(v) : v \in Vectors} :
          store' = Append(store, [id |-> Len(store) + 1, content |-> content,
                                  embedding |-> embedding])
    /\ UNCHANGED <<embedding_model, chunks_cache, embeddings_cache, call,
                   semantic_results, keyword_results, result>>
    /\ UNCHANGED <<splitVars, threadVars, procVars, ingestVars, appVars>>

(* SentenceTransformer.encode on a segment text: a fixed vector per text *)
Encode(content) ==
    IF content = <<"tax">> THEN <<1, 0>>
    ELSE IF content = <<"taxes">> THEN <<0, 1>>
    ELSE <<7, 24>>

(* DocumentProcessor.update_embeddings: lines 353-398; without a model it  *)
(* returns at once, and when encode raises create_embeddings returns an    *)
(* empty array and nothing is written                                      *)
UpdateEmbeddings ==
    /\ call = NoCall
    /\ \E encode_ok \in BOOLEAN :
          store' = IF processor_model /\ encode_ok
                   THEN [i \in 1 .. Len(store) |->
                            IF store[i].embedding.isNone
                            THEN [store[i] EXCEPT !.embedding = Some(Encode(store[i].content))]
                            ELSE store[i]]
                   ELSE store
    /\ UNCHANGED <<embedding_model, chunks_cache, embeddings_cache, call,
                   semantic_results, keyword_results, result>>
    /\ UNCHANGED <<splitVars, threadVars, procVars, ingestVars, appVars>>

RefreshCall == [name |-> "refresh_cache", query |-> <<>>, qvec |-> <<>>, top_k |-> 0]

RefreshCache_ReloadsModel ==
    /\ call = NoCall
    /\ call' = RefreshCall
    /\ embedding_model' = TRUE
    /\ LET ld == load_chunks_and_embeddings(None, None)
       IN  /\ chunks_cache' = ld.cc
           /\ embeddings_cache' = ld.ec
    /\ UNCHANGED <<store, semantic_results, keyword_results, result>>
    /\ UNCHANGED <<splitVars, threadVars, procVars, ingestVars, appVars>>

(* refresh_cache: lines 94-101 *)
RefreshCache ==
    /\ call = NoCall
    /\ call' = RefreshCall
    /\ IF embedding_model
       THEN LET ld == load_chunks_and_embeddings(None, None)
            IN  /\ chunks_cache' = ld.cc
                /\ embeddings_cache' = ld.ec
       ELSE /\ chunks_cache' = load_chunks_for_keyword_search
            /\ embeddings_cache' = None
    /\ UNCHANGED <<embedding_model, store, semantic_results, keyword_results, result>>
    /\ UNCHANGED <<splitVars, threadVars, procVars, ingestVars, appVars>>

SearchSimilarChunks ==
    /\ call = NoCall
    /\ \E query \in Queries, qvec \in QueryVectors, k \in 0 .. MaxK :
       \E out \in search_similar_chunks(chunks_cache, embeddings_cache, query, qvec, k) :
          /\ call' = [name |-> "search_similar_chunks", query |-> query,
                      qvec |-> qvec, top_k |-> k]
          /\ chunks_cache' = out.cc
          /\ embeddings_cache' = out.ec
          /\ result' = out.result
    /\ semantic_results' = <<>>
    /\ keyword_results' = <<>>
    /\ UNCHANGED <<embedding_model, store>>
    /\ UNCHANGED <<splitVars, threadVars, procVars, ingestVars, appVars>>

SearchByKeywords ==
    /\ call = NoCall
    /\ \E query \in Queries, k \in 0 .. MaxK :
          LET out == search_by_keywords(chunks_cache, embeddings_cache, query, k)
          IN  /\ call' = [name |-> "search_by_keywords", query |-> query,
                          qvec |-> <<>>, top_k |-> k]
              /\ chunks_cache' = out.cc
              /\ embeddings_cache' = out.ec
              /\ result' = out.result
    /\ semantic_results' = <<>>
    /\ keyword_results' = <<>>
    /\ UNCHANGED <<embedding_model, store>>
    /\ UNCHANGED <<splitVars, threadVars, procVars, ingestVars, appVars>>

HybridSearch ==
    /\ call = NoCall
    /\ \E query \in Queries, qvec \in QueryVectors, k \in 0 .. MaxK :
       \E out \in hybrid_search(chunks_cache, embeddings_cache, query, qvec, k) :
          /\ call' = [name |-> "hybrid_search", query |-> query,
                      qvec |-> qvec, top_k |-> k]
          /\ chunks_cache' = out.cc
          /\ embeddings_cache' = out.ec
          /\ semantic_results' = out.sem
          /\ keyword_results' = out.kw
          /\ result' = out.result
    /\ UNCHANGED <<embedding_model, store>>
    /\ UNCHANGED <<splitVars, threadVars, procVars, ingestVars, appVars>>

(* the call returns to its caller; its locals are gone *)
Return ==
    /\ call # NoCall
    /\ call' = NoCall
    /\ semantic_results' = <<>>
    /\ keyword_results' = <<>>
    /\ result' = <<>>
    /\ UNCHANGED <<embedding_model, store, chunks_cache, embeddings_cache>>
    /\ UNCHANGED <<splitVars, threadVars, procVars, ingestVars, appVars>>

NextRetriever ==
    \/ Return
    \/ InsertChunk
    \/ UpdateEmbeddings
    \/ RefreshCache
    \/ SearchSimilarChunks
    \/ SearchByKeywords
    \/ HybridSearch

SpecRetriever == InitRetriever /\ [][NextRetriever]_vars

----------------------------------------------------------------------------
(* refresh_cache on one thread and one query on another thread of the web  *)
(* server, interleaved at the statements that read or write the caches.    *)
(* Nothing in DocumentRetriever synchronises the two.  A lazy load that    *)
(* the query itself starts is taken as one step.                           *)

(* the queries of the interleaved runs: one word, any vector, any top_k *)
ThreadQueries == {q \in Queries : Len(q) = 1}

(* a cache as refresh_cache leaves it for the first n rows of the store *)
RefreshedCache(n) ==
    LET old == SubSeq(store, 1, n)
        withVec == SelectSeq(old, LAMBDA c : ~c.embedding.isNone)
    IN  IF embedding_model
        THEN IF withVec = <<>> THEN [cc |-> None, ec |-> None]
             ELSE [cc |-> Some([i \in 1 .. Len(withVec) |-> CacheRow(withVec[i])]),
                   ec |-> Some([i \in 1 .. Len(withVec) |-> withVec[i].embedding.val])]
        ELSE [cc |-> Some([i \in 1 .. Len(old) |-> CacheRow(old[i])]), ec |-> None]

StoreRows == [id : {0}, content : Contents,
              embedding : {None} \cup {Some(v) : v \in Vectors}]

(* the stores that InsertChunk can build: ids 1, 2, ... in order *)
Stores == {[i \in 1 .. Len(s) |-> [s[i] EXCEPT !.id = i]] : s \in SeqsUpTo(StoreRows, MaxStore)}

(* a retriever whose cache was refreshed earlier; the store may have got   *)
(* one more row since                                                      *)
InitThreads ==
    /\ embedding_model \in BOOLEAN
    /\ store \in Stores
    /\ \E n \in {Len(store) - 1, Len(store)} :
          /\ n >= 0
          /\ chunks_cache = RefreshedCache(n).cc
          /\ embeddings_cache = RefreshedCache(n).ec
    /\ pre_cache = [cc |-> chunks_cache, ec |-> embeddings_cache]
    /\ call = NoCall
    /\ semantic_results = <<>>
    /\ keyword_results = <<>>
    /\ result = <<>>
    /\ rpc = "idle"
    /\ r_chunks = <<>>
    /\ r_i = 0
    /\ embeddings_list = <<>>
    /\ qpc = "idle"
    /\ q_matrix = <<>>
    /\ q_order = <<>>
    /\ fault = FALSE
    /\ saw_none = FALSE
    /\ own_load = FALSE
    /\ SplitIdle
    /\ ProcessorIdle
    /\ IngestIdle
    /\ AppIdle

(* refresh_cache has cleared a cache and has not returned yet *)
RefreshInProgress == rpc \notin {"idle", "done"}

refreshLocals == <<rpc, r_chunks, r_i, embeddings_list, pre_cache>>

queryLocals == <<qpc, q_matrix, q_order, fault, saw_none, own_load,
                 call, semantic_results, keyword_results, result>>

(* refresh_cache line 96: self._chunks_cache = None *)
RefreshClearChunks ==
    /\ rpc = "idle"
    /\ pre_cache' = [cc |-> chunks_cache, ec |-> embeddings_cache]
    /\ chunks_cache' = None
    /\ rpc' = "clear_embeddings"
    /\ UNCHANGED <<embedding_model, store, embeddings_cache, r_chunks, r_i, embeddings_list>>
    /\ UNCHANGED queryLocals
    /\ UNCHANGED <<splitVars, procVars, ingestVars, appVars>>

(* refresh_cache line 97: self._embeddings_cache = None *)
RefreshClearEmbeddings ==
    /\ rpc = "clear_embeddings"
    /\ embeddings_cache' = None
    /\ rpc' = "read"
    /\ UNCHANGED <<embedding_model, store, chunks_cache, r_chunks, r_i, embeddings_list, pre_cache>>
    /\ UNCHANGED queryLocals
    /\ UNCHANGED <<splitVars, procVars, ingestVars, appVars>>

(* the store read and the fresh empty list: lines 31-39 with a model,      *)
(* lines 69-76 without                                                     *)
RefreshRead ==
    /\ rpc = "read"
    /\ LET found == IF embedding_model THEN get_all_chunks_with_embeddings
                    ELSE get_all_chunks
       IN  /\ r_chunks' = found
           /\ IF embedding_model /\ found = <<>>
              THEN /\ rpc' = "done"
                   /\ UNCHANGED chunks_cache
              ELSE /\ rpc' = "loop"
                   /\ chunks_cache' = Some(<<>>)
    /\ r_i' = 1
    /\ embeddings_list' = <<>>
    /\ UNCHANGED <<embedding_model, store, embeddings_cache, pre_cache>>
    /\ UNCHANGED queryLocals
    /\ UNCHANGED <<splitVars, procVars, ingestVars, appVars>>

(* one pass of the loop: self._chunks_cache.append(row), lines 41-52 and   *)
(* 77-86; the list appended to is the one the attribute names now          *)
RefreshAppend ==
    /\ rpc = "loop"
    /\ r_i <= Len(r_chunks)
    /\ chunks_cache' = Some(Append(chunks_cache.val, CacheRow(r_chunks[r_i])))
    /\ embeddings_list' = IF embedding_model
                          THEN Append(embeddings_list, r_chunks[r_i].embedding.val)
                          ELSE embeddings_list
    /\ r_i' = r_i + 1
    /\ UNCHANGED <<embedding_model, store, embeddings_cache, rpc, r_chunks, pre_cache>>
    /\ UNCHANGED queryLocals
    /\ UNCHANGED <<splitVars, procVars, ingestVars, appVars>>

(* after the loop: self._embeddings_cache = np.array(embeddings_list),     *)
(* lines 54-57; without a model the load just returns, line 88             *)
RefreshPublish ==
    /\ rpc = "loop"
    /\ r_i > Len(r_chunks)
    /\ embeddings_cache' = IF embedding_model THEN Some(embeddings_list)
                           ELSE embeddings_cache
    /\ rpc' = "done"
    /\ UNCHANGED <<embedding_model, store, chunks_cache, r_chunks, r_i, embeddings_list, pre_cache>>
    /\ UNCHANGED queryLocals
    /\ UNCHANGED <<splitVars, procVars, ingestVars, appVars>>

(* where the query goes after its semantic part *)
AfterSemantic == IF call.name = "hybrid_search" THEN "kw_check" ELSE "done"

(* where the query goes after its lexical part *)
AfterKeyword == IF call.name = "hybrid_search" THEN "fuse" ELSE "done"

(* the top_k of the semantic part of the running call *)
SemanticTopK ==
    IF call.name = "hybrid_search" THEN TopK(HybridSemanticK(TopK(call.top_k)))
    ELSE TopK(call.top_k)

(* the top_k of the lexical part of the running call; search_similar_chunks *)
(* without a model passes its own top_k on: line 109                       *)
KeywordTopK ==
    IF call.name = "hybrid_search" THEN TopK(HybridKeywordK(TopK(call.top_k)))
    ELSE TopK(TopK(call.top_k))

(* a request thread enters one of the three query methods *)
QueryStart ==
    /\ qpc = "idle"
    /\ \E name \in {"search_similar_chunks", "search_by_keywords", "hybrid_search"},
          query \in ThreadQueries, qvec \in QueryVectors, k \in 0 .. MaxK :
          /\ call' = [name |-> name, query |-> query,
                      qvec |-> IF name = "search_by_keywords" THEN <<>> ELSE qvec,
                      top_k |-> k]
          /\ qpc' = IF name = "search_by_keywords" \/ ~embedding_model
                    THEN "kw_check" ELSE "sim_check"
    /\ UNCHANGED <<embedding_model, store, chunks_cache, embeddings_cache>>
    /\ UNCHANGED <<q_matrix, q_order, fault, saw_none, own_load,
                   semantic_results, keyword_results, result>>
    /\ UNCHANGED refreshLocals
    /\ UNCHANGED <<splitVars, procVars, ingestVars, appVars>>

(* search_similar_chunks lines 112-114: the lazy load *)
QuerySimCheck ==
    /\ qpc = "sim_check"
    /\ IF chunks_cache.isNone \/ embeddings_cache.isNone
       THEN LET ld == load_chunks_and_embeddings(chunks_cache, embeddings_cache)
            IN  /\ chunks_cache' = ld.cc
                /\ embeddings_cache' = ld.ec
                /\ saw_none' = (saw_none \/ RefreshInProgress)
                /\ own_load' = (own_load \/ RefreshInProgress)
                /\ qpc' = IF ld.ok THEN "sim_len" ELSE AfterSemantic
                /\ result' = <<>>
                /\ semantic_results' = <<>>
       ELSE /\ qpc' = "sim_len"
            /\ UNCHANGED <<chunks_cache, embeddings_cache, saw_none, own_load,
                           result, semantic_results>>
    /\ UNCHANGED <<embedding_model, store, q_matrix, q_order, fault, call, keyword_results>>
    /\ UNCHANGED refreshLocals
    /\ UNCHANGED <<splitVars, procVars, ingestVars, appVars>>

(* line 116: len(self._chunks_cache), outside the try block; on None the   *)
(* TypeError leaves the method                                             *)
QuerySimLen ==
    /\ qpc = "sim_len"
    /\ IF chunks_cache.isNone
       THEN /\ fault' = TRUE
            /\ saw_none' = (saw_none \/ RefreshInProgress)
            /\ qpc' = "done"
       ELSE /\ qpc' = IF Len(chunks_cache.val) = 0 THEN AfterSemantic ELSE "sim_score"
            /\ UNCHANGED <<fault, saw_none>>
    /\ UNCHANGED <<embedding_model, store, chunks_cache, embeddings_cache>>
    /\ UNCHANGED <<q_matrix, q_order, own_load, call, semantic_results, keyword_results, result>>
    /\ UNCHANGED refreshLocals
    /\ UNCHANGED <<splitVars, procVars, ingestVars, appVars>>

(* lines 121-128: the similarities of the matrix read now and their        *)
(* argsort; on None the error is caught and [] returned, lines 142-144     *)
QuerySimScore ==
    /\ qpc = "sim_score"
    /\ IF embeddings_cache.isNone
       THEN /\ saw_none' = (saw_none \/ RefreshInProgress)
            /\ qpc' = AfterSemantic
            /\ UNCHANGED <<q_matrix, q_order>>
       ELSE /\ q_matrix' = embeddings_cache.val
            /\ q_order' \in ArgsortOrders(Similarities(embeddings_cache.val, call.qvec))
            /\ qpc' = "sim_rows"
            /\ UNCHANGED saw_none
    /\ UNCHANGED <<embedding_model, store, chunks_cache, embeddings_cache>>
    /\ UNCHANGED <<fault, own_load, call, semantic_results, keyword_results, result>>
    /\ UNCHANGED refreshLocals
    /\ UNCHANGED <<splitVars, procVars, ingestVars, appVars>>

(* lines 131-140: the rows of the list read now; None or a missing index   *)
(* raises inside the try block and [] is returned                          *)
QuerySimRows ==
    /\ qpc = "sim_rows"
    /\ LET rows == IF chunks_cache.isNone THEN <<>>
                   ELSE SemanticRank(chunks_cache.val, q_matrix, call.qvec,
                                     SemanticTopK, q_order)
       IN  /\ semantic_results' = IF call.name = "hybrid_search" THEN rows
                                  ELSE semantic_results
           /\ result' = IF call.name = "hybrid_search" THEN result ELSE rows
    /\ saw_none' = (saw_none \/ (chunks_cache.isNone /\ RefreshInProgress))
    /\ qpc' = AfterSemantic
    /\ UNCHANGED <<embedding_model, store, chunks_cache, embeddings_cache>>
    /\ UNCHANGED <<q_matrix, q_order, fault, own_load, call, keyword_results>>
    /\ UNCHANGED refreshLocals
    /\ UNCHANGED <<splitVars, procVars, ingestVars, appVars>>

(* search_by_keywords lines 151-152: the lazy load *)
QueryKwCheck ==
    /\ qpc = "kw_check"
    /\ IF chunks_cache.isNone
       THEN /\ chunks_cache' = load_chunks_for_keyword_search
            /\ saw_none' = (saw_none \/ RefreshInProgress)
            /\ own_load' = (own_load \/ RefreshInProgress)
       ELSE UNCHANGED <<chunks_cache, saw_none, own_load>>
    /\ qpc' = "kw_scan"
    /\ UNCHANGED <<embedding_model, store, embeddings_cache>>
    /\ UNCHANGED <<q_matrix, q_order, fault, call, semantic_results, keyword_results, result>>
    /\ UNCHANGED refreshLocals
    /\ UNCHANGED <<splitVars, procVars, ingestVars, appVars>>

(* lines 154-172: the scan of the list read now; iterating None raises a   *)
(* TypeError that leaves the method                                        *)
QueryKwScan ==
    /\ qpc = "kw_scan"
    /\ IF chunks_cache.isNone
       THEN /\ fault' = TRUE
            /\ saw_none' = (saw_none \/ RefreshInProgress)
            /\ qpc' = "done"
            /\ UNCHANGED <<keyword_results, result>>
       ELSE LET rows == KeywordRank(chunks_cache.val, call.query, KeywordTopK)
            IN  /\ keyword_results' = IF call.name = "hybrid_search" THEN rows
                                      ELSE keyword_results
                /\ result' = IF call.name = "hybrid_search" THEN result ELSE rows
                /\ qpc' = AfterKeyword
                /\ UNCHANGED <<fault, saw_none>>
    /\ UNCHANGED <<embedding_model, store, chunks_cache, embeddings_cache>>
    /\ UNCHANGED <<q_matrix, q_order, own_load, call, semantic_results>>
    /\ UNCHANGED refreshLocals
    /\ UNCHANGED <<splitVars, procVars, ingestVars, appVars>>

(* hybrid_search lines 189-214 *)
QueryFuse ==
    /\ qpc = "fuse"
    /\ result' = IF embedding_model
                 THEN Fuse(semantic_results, keyword_results, TopK(call.top_k))
                 ELSE keyword_results
    /\ qpc' = "done"
    /\ UNCHANGED <<embedding_model, store, chunks_cache, embeddings_cache>>
    /\ UNCHANGED <<q_matrix, q_order, fault, saw_none, own_load, call,
                   semantic_results, keyword_results>>
    /\ UNCHANGED refreshLocals
    /\ UNCHANGED <<splitVars, procVars, ingestVars, appVars>>

NextThreads ==
    \/ RefreshClearChunks
    \/ RefreshClearEmbeddings
    \/ RefreshRead
    \/ RefreshAppend
    \/ RefreshPublish
    \/ QueryStart
    \/ QuerySimCheck
    \/ QuerySimLen
    \/ QuerySimScore
    \/ QuerySimRows
    \/ QueryKwCheck
    \/ QueryKwScan
    \/ QueryFuse

SpecThreads == InitThreads /\ [][NextThreads]_vars

----------------------------------------------------------------------------
(* Properties of the interleaved runs *)

(* the lists that the finished call can return when it runs alone on the   *)
(* caches of snapshot snap                                                 *)
ResultsOn(snap) ==
    IF call.name = "search_similar_chunks"
    THEN {o.result : o \in search_similar_chunks(snap.cc, snap.ec, call.query,
                                                  call.qvec, call.top_k)}
    ELSE IF call.name = "hybrid_search"
    THEN {o.result : o \in hybrid_search(snap.cc, snap.ec, call.query,
                                          call.qvec, call.top_k)}
    ELSE {search_by_keywords(snap.cc, snap.ec, call.query, call.top_k).result}

(* C1, as claimed: a query that runs while refresh_cache runs and returns  *)
(* a list returns what it would return on the complete cache from before   *)
(* the refresh or on the complete cache that the refresh builds.           *)
C1_SnapshotResult ==
    (qpc = "done" /\ rpc = "done" /\ ~fault)
        => result \in ResultsOn(pre_cache) \cup ResultsOn(RefreshedCache(Len(store)))

(* C2, as claimed: when the cache was loaded before refresh_cache began, a *)
(* query never sees a cache that the running refresh has set to None,      *)
(* never starts a store load of its own because of that, and never fails.  *)
C2_ObservesPrevious ==
    (~pre_cache.cc.isNone /\ (embedding_model => ~pre_cache.ec.isNone))
        => (~fault /\ ~saw_none /\ ~own_load)

----------------------------------------------------------------------------
(* Properties of split_into_chunks *)

(* C7, as claimed: a text whose cleaned form is non-empty and no longer    *)
(* than the window size yields exactly one segment, the cleaned text.      *)
C7_SingleSegment ==
    (pc = "done" /\ chunk_size > 0 /\ overlap > 0
        /\ cleaned_text # <<>> /\ Len(cleaned_text) <= chunk_size)
        => (Len(chunks) = 1 /\ chunks[1].content = cleaned_text)

(* C8: every emitted segment has 0 <= start_position < end_position <=     *)
(* length of the cleaned text.                                             *)
C8_PositionsInRange ==
    \A i \in 1 .. Len(chunks) :
        /\ 0 <= chunks[i].start_position
        /\ chunks[i].start_position < chunks[i].end_position
        /\ chunks[i].end_position <= Len(cleaned_text)

(* a call that returned several segments, one of them cut back to a        *)
(* sentence or blank boundary before the raw window end                    *)
C8_Witness ==
    /\ pc = "done"
    /\ chunk_size > 0 /\ overlap > 0
    /\ Len(chunks) >= 2
    /\ \E i \in 1 .. Len(chunks) :
          /\ chunks[i].end_position < Len(cleaned_text)
          /\ chunks[i].end_position < chunks[i].start_position + EffChunkSize

(* C9: every loop iteration strictly increases the window start and keeps  *)
(* it within the text, so the number of iterations is bounded by the text  *)
(* length; the call returns as soon as start >= end after an iteration or  *)
(* the while test finds start at the text length.                          *)
C9_Terminates ==
    [][ /\ SplitIteration =>
             /\ start' > start
             /\ start' <= Len(cleaned_text)
             /\ (start' >= end' => pc' = "done")
        /\ (pc = "loop" /\ start >= Len(cleaned_text)) => pc' = "done" ]_vars

(* a call with overlap >= window size that returned after more than one    *)
(* iteration                                                               *)
C9_Witness ==
    /\ pc = "done"
    /\ chunk_size > 0 /\ overlap >= chunk_size
    /\ Len(chunks) >= 2

(* C10, as claimed: consecutive emitted segments overlap, segment i+1      *)
(* starts before segment i ends.                                           *)
C10_ConsecutiveOverlap ==
    (overlap > 0 /\ Len(chunks) > 1)
        => \A i \in 1 .. (Len(chunks) - 1) :
              chunks[i + 1].start_position < chunks[i].end_position

----------------------------------------------------------------------------
(* Properties of the rankers and the hybrid combiner *)

(* C3: with the embedder unavailable, hybrid_search(q, k) returns exactly  *)
(* the sequence that search_by_keywords(q, k) computes from the cache:     *)
(* same segments, same order, same scores.                                 *)
C3_DegradeEqualsLexical ==
    (call.name = "hybrid_search" /\ ~embedding_model)
        => /\ ~chunks_cache.isNone
           /\ result = KeywordRank(chunks_cache.val, call.query, TopK(call.top_k))

(* a degraded hybrid_search that returned a truncated, non-empty list      *)
C3_Witness ==
    /\ call.name = "hybrid_search"
    /\ ~embedding_model
    /\ Len(result) >= 1
    /\ Len(result) < Len(chunks_cache.val)
    /\ Len(result) = call.top_k

InSemantic(id) == \E i \in 1 .. Len(semantic_results) : semantic_results[i].id = id

InKeyword(id) == \E i \in 1 .. Len(keyword_results) : keyword_results[i].id = id

(* C4: the fused score of a returned segment is s + 0.3 * l when both      *)
(* rankers returned it, s when only the semantic ranker did, 0.5 * l when  *)
(* only the lexical ranker did (scores in units of 1 / SCALE).             *)
C4_FusedScore ==
    (call.name = "hybrid_search" /\ embedding_model)
        => \A n \in 1 .. Len(result) :
              LET r == result[n]
              IN  /\ InSemantic(r.id) \/ InKeyword(r.id)
                  /\ \A i \in 1 .. Len(semantic_results), j \in 1 .. Len(keyword_results) :
                        (semantic_results[i].id = r.id /\ keyword_results[j].id = r.id)
                            => 10 * r.final_score
                                 = 10 * semantic_results[i].similarity_score
                                   + 3 * keyword_results[j].keyword_score
                  /\ \A i \in 1 .. Len(semantic_results) :
                        (semantic_results[i].id = r.id /\ ~InKeyword(r.id))
                            => r.final_score = semantic_results[i].similarity_score
                  /\ \A j \in 1 .. Len(keyword_results) :
                        (keyword_results[j].id = r.id /\ ~InSemantic(r.id))
                            => 10 * r.final_score = 5 * keyword_results[j].keyword_score

(* a hybrid_search whose result holds a segment that both rankers found    *)
(* and a segment that only the lexical ranker found                        *)
C4_Witness ==
    /\ call.name = "hybrid_search"
    /\ embedding_model
    /\ \E a, b \in 1 .. Len(result) :
          /\ InSemantic(result[a].id) /\ InKeyword(result[a].id)
          /\ ~InSemantic(result[b].id) /\ InKeyword(result[b].id)

(* C5: hybrid_search with the embedder available asks the semantic ranker  *)
(* for 2k and the lexical ranker for k candidates and returns at most k    *)
(* results, in non-increasing order of fused score, no segment id twice    *)
(* (k is the effective top_k).                                             *)
C5_HybridShape ==
    (call.name = "hybrid_search" /\ embedding_model)
        => LET k == TopK(call.top_k)
           IN  /\ HybridSemanticK(k) = 2 * k
               /\ HybridKeywordK(k) = k
               /\ Len(semantic_results) <= 2 * k
               /\ Len(keyword_results) <= k
               /\ Len(result) <= k
               /\ \A i, j \in 1 .. Len(result) :
                     i < j => /\ result[i].final_score >= result[j].final_score
                              /\ result[i].id # result[j].id

(* a hybrid_search that cut its fused list down to k, from a semantic      *)
(* output longer than k                                                    *)
C5_Witness ==
    /\ call.name = "hybrid_search"
    /\ embedding_model
    /\ call.top_k >= 1
    /\ Len(result) = call.top_k
    /\ Len(semantic_results) > call.top_k
    /\ Len(keyword_results) >= 1

(* C6: every result of search_similar_chunks that carries a similarity     *)
(* score carries the cosine of the query vector and the segment's cached   *)
(* vector, and that score is not below 0.3.                                *)
C6_SimilarityFloor ==
    (call.name = "search_similar_chunks" /\ embedding_model)
        => \A n \in 1 .. Len(result) :
              /\ result[n].similarity_score >= SIMILARITY_FLOOR
              /\ \A i \in 1 .. Len(chunks_cache.val) :
                    chunks_cache.val[i].id = result[n].id
                        => result[n].similarity_score
                             = cosine_similarity(call.qvec, embeddings_cache.val[i])

(* a semantic search that dropped a row below the floor and so returned    *)
(* fewer than k results although the cache had k rows                      *)
C6_Witness ==
    /\ call.name = "search_similar_chunks"
    /\ embedding_model
    /\ ~chunks_cache.isNone
    /\ Len(chunks_cache.val) >= TopK(call.top_k)
    /\ Len(result) >= 1
    /\ Len(result) < TopK(call.top_k)

----------------------------------------------------------------------------
(* Properties of the lexical ranker, the refresh and the embedder state *)

(* the lower-cased tokens of a word sequence *)
Tokens(ws) == {Lower(ws[i]) : i \in 1 .. Len(ws)}

(* C11: every row that search_by_keywords returns is a cached segment that *)
(* shares at least one exact lower-cased token with the query, and its     *)
(* score is the number of distinct shared tokens divided by the number of  *)
(* distinct query tokens (in units of 1 / SCALE); a cached segment that    *)
(* shares no exact token with the query is not returned.                   *)
C11_LexicalScore ==
    (call.name = "search_by_keywords")
        => /\ ~chunks_cache.isNone
           /\ \A n \in 1 .. Len(result) :
                 \E i \in 1 .. Len(chunks_cache.val) :
                    LET seg == chunks_cache.val[i]
                        shared == Tokens(call.query) \cap Tokens(seg.content)
                    IN  /\ seg.id = result[n].id
                        /\ shared # {}
                        /\ result[n].keyword_score * Cardinality(Tokens(call.query))
                              = Cardinality(shared) * SCALE
           /\ \A i \in 1 .. Len(chunks_cache.val) :
                 (Tokens(call.query) \cap Tokens(chunks_cache.val[i].content) = {})
                     => \A n \in 1 .. Len(result) :
                           result[n].id # chunks_cache.val[i].id

(* a lexical search with two distinct query tokens that returned a segment *)
(* matching one of them only through lower-casing, with score 1/2          *)
C11_Witness ==
    /\ call.name = "search_by_keywords"
    /\ Cardinality(Tokens(call.query)) = 2
    /\ \E n \in 1 .. Len(result) :
          /\ 2 * result[n].keyword_score = SCALE
          /\ result[n].content = <<"tax">>
          /\ \E w \in 1 .. Len(call.query) : call.query[w] = "Tax"

(* C14: an embedder that is unavailable stays unavailable through every    *)
(* operation, in the retriever and in the processor, and every             *)
(* hybrid_search made while it is unavailable makes no semantic search and *)
(* returns lexical rows only (no similarity or fused score).               *)
C14_StaysUnavailable ==
    [][ /\ (~embedding_model => ~embedding_model')
        /\ (~processor_model => ~processor_model')
        /\ (~embedding_model' /\ call'.name = "hybrid_search")
              => /\ semantic_results' = <<>>
                 /\ \A n \in 1 .. Len(result') :
                       /\ "keyword_score" \in DOMAIN result'[n]
                       /\ "similarity_score" \notin DOMAIN result'[n]
                       /\ "final_score" \notin DOMAIN result'[n] ]_vars

(* a hybrid_search without embedder, after a refresh loaded the text-only  *)
(* cache, over a store that holds a segment with a vector                  *)
C14_Witness ==
    /\ ~embedding_model
    /\ ~processor_model
    /\ call.name = "hybrid_search"
    /\ Len(result) >= 1
    /\ \E i \in 1 .. Len(store) : ~store[i].embedding.isNone

(* C16, as claimed: after refresh_cache with the embedder available and no *)
(* segment with a vector in the store, the cache is loaded and empty: both *)
(* the row list and the matrix are present, with no rows.                  *)
C16_ReadyButEmpty ==
    (/\ call.name = "refresh_cache"
     /\ embedding_model
     /\ \A i \in 1 .. Len(store) : store[i].embedding.isNone)
        => /\ ~chunks_cache.isNone
           /\ ~embeddings_cache.isNone
           /\ Len(chunks_cache.val) = 0

(* the rows and the matrix that the caches hold; a cache that is not       *)
(* loaded holds none                                                       *)
CachedRows == IF chunks_cache.isNone THEN <<>> ELSE chunks_cache.val

CachedMatrix == IF embeddings_cache.isNone THEN <<>> ELSE embeddings_cache.val

(* C17: when refresh_cache has run, with the embedder available the cache  *)
(* rows are exactly the store segments that have a vector, each once, and  *)
(* row j of the matrix is the vector of the segment of row j; with the     *)
(* embedder unavailable the cache rows are exactly the store segments,     *)
(* each once, and there is no matrix.                                      *)
C17_RefreshLayout ==
    (call.name = "refresh_cache")
        => IF embedding_model
           THEN /\ Len(CachedRows) = Len(CachedMatrix)
                /\ Len(CachedRows)
                      = Cardinality({i \in 1 .. Len(store) : ~store[i].embedding.isNone})
                /\ \A i \in 1 .. Len(store) :
                      ~store[i].embedding.isNone
                          => \E j \in 1 .. Len(CachedRows) :
                                /\ CachedRows[j].id = store[i].id
                                /\ CachedRows[j].content = store[i].content
                                /\ CachedMatrix[j] = store[i].embedding.val
           ELSE /\ ~chunks_cache.isNone
                /\ embeddings_cache.isNone
                /\ Len(chunks_cache.val) = Len(store)
                /\ \A i \in 1 .. Len(store) :
                      \E j \in 1 .. Len(chunks_cache.val) :
                         /\ chunks_cache.val[j].id = store[i].id
                         /\ chunks_cache.val[j].content = store[i].content

(* a refresh with the embedder available over a store that holds a segment *)
(* with a vector and a segment without                                     *)
C17_Witness ==
    /\ call.name = "refresh_cache"
    /\ embedding_model
    /\ Len(CachedRows) >= 1
    /\ Len(CachedRows) < Len(store)

(* the cache row that holds segment id *)
RowOf(id) == CHOOSE i \in 1 .. Len(chunks_cache.val) : chunks_cache.val[i].id = id

(* C20, as claimed: the results of search_similar_chunks are in            *)
(* non-increasing order of score, and of two results with equal scores the *)
(* one from the lower cache row comes first.                               *)
C20_StableTies ==
    (call.name = "search_similar_chunks" /\ embedding_model)
        => \A i, j \in 1 .. Len(result) :
              i < j => /\ result[i].similarity_score >= result[j].similarity_score
                       /\ (result[i].similarity_score = result[j].similarity_score
                              => RowOf(result[i].id) < RowOf(result[j].id))

----------------------------------------------------------------------------
(* The database tables and the ingestion paths of DocumentProcessor *)

(* the .txt files of the document directory, in the order glob lists them *)
FileOrder == <<"a.txt">>

Filenames == {FileOrder[i] : i \in 1 .. Len(FileOrder)}

(* file texts: a text of one segment, a text of two segments, a text that  *)
(* clean_text empties, a blank text                                        *)
DocContents == {<<"a">>, <<"a", "a">>, <<"@">>, <<" ">>}

(* batch_size of process_all_documents *)
BATCH_SIZE == 10

(* the window end of lines 72-84 for text t, sizes cs and ov, start s *)
SplitWindowEnd(t, cs, ov, s) ==
    LET n == Len(t)
        e0 == Min(s + cs, n)
        sentence_end == rfind(t, ".", e0 - ov, e0)
        space_pos == rfind(t, " ", e0 - ov, e0)
    IN  IF e0 < n
        THEN IF sentence_end # -1 /\ sentence_end > s THEN sentence_end + 1
             ELSE IF space_pos # -1 /\ space_pos > s THEN space_pos
             ELSE e0
        ELSE e0

(* the while loop of lines 70-103 from start s with the segments out       *)
(* emitted so far; chunk_index is the number of segments emitted           *)
RECURSIVE SplitLoop(_, _, _, _, _)
SplitLoop(t, cs, ov, s, out) ==
    IF ~(s < Len(t)) THEN out
    ELSE LET e == SplitWindowEnd(t, cs, ov, s)
             chunk_content == Strip(Slice(t, s, e))
             out2 == IF chunk_content # <<>>
                     THEN Append(out, [index |-> Len(out),
                                       content |-> chunk_content,
                                       start_position |-> s,
                                       end_position |-> e,
                                       size |-> Len(chunk_content)])
                     ELSE out
             s2 == Max(e - ov, s + 1)
         IN  IF s2 >= e THEN out2 ELSE SplitLoop(t, cs, ov, s2, out2)

(* split_into_chunks(text) as the ingestion paths call it, with the        *)
(* configured sizes                                                        *)
split_into_chunks(text) == SplitLoop(clean_text(text), CHUNK_SIZE, CHUNK_OVERLAP, 0, <<>>)

(* the row data of one segment of document document_id *)
ChunkData(document_id, chunk, has_embedding) ==
    [document_id |-> document_id,
     chunk_index |-> chunk.index,
     content |-> chunk.content,
     start_position |-> chunk.start_position,
     end_position |-> chunk.end_position,
     has_embedding |-> has_embedding]

(* the rows that _process_documents_batch prepares for the documents docs: *)
(* lines 267-288                                                           *)
RECURSIVE BatchChunks(_)
BatchChunks(docs) ==
    IF docs = <<>> THEN <<>>
    ELSE LET segments == split_into_chunks(docs[1].content)
         IN  [i \in 1 .. Len(segments) |-> ChunkData(docs[1].id, segments[i], FALSE)]
             \o BatchChunks(Tail(docs))

ChunkConstraints_NoUnique(rows) ==
    \A i \in 1 .. Len(rows) : rows[i].document_id # 0

(* the constraints of table document_chunks: document_id NOT NULL and      *)
(* UNIQUE (document_id, chunk_index)                                       *)
ChunkConstraints(rows) ==
    /\ \A i \in 1 .. Len(rows) : rows[i].document_id # 0
    /\ \A i, j \in 1 .. Len(rows) :
          i # j => <<rows[i].document_id, rows[i].chunk_index>>
                     # <<rows[j].document_id, rows[j].chunk_index>>

(* db.session.commit() of the pending segment rows: all of them are        *)
(* inserted, or on an IntegrityError none is                               *)
CommitChunks(table, pending) ==
    LET next == table \o [i \in 1 .. Len(pending) |->
                             [id |-> Len(table) + i] @@ pending[i]]
    IN  IF ChunkConstraints(next) THEN [ok |-> TRUE, table |-> next]
        ELSE [ok |-> FALSE, table |-> table]

HasFilename(docs, filename) == \E i \in 1 .. Len(docs) : docs[i].filename = filename

(* the constraint of table documents: UNIQUE (filename) *)
DocumentConstraints(docs) ==
    \A i, j \in 1 .. Len(docs) : i # j => docs[i].filename # docs[j].filename

(* db.session.commit() of the pending document rows *)
CommitDocuments(table, pending) ==
    LET next == table \o [i \in 1 .. Len(pending) |->
                             [id |-> Len(table) + i] @@ pending[i]]
    IN  IF DocumentConstraints(next) THEN [ok |-> TRUE, table |-> next]
        ELSE [ok |-> FALSE, table |-> table]

get_unprocessed_documents_All == documents

(* get_unprocessed_documents: the documents that have no segment *)
get_unprocessed_documents ==
    SelectSeq(documents,
              LAMBDA d : \A i \in 1 .. Len(db_chunks) : db_chunks[i].document_id # d.id)

----------------------------------------------------------------------------
(* Context expander: get_document_context lines 216-256 *)

MaxChunkId == 3
MaxContextSize == 1

(* DatabaseManager sets self.app only: it has no attribute db_path *)
HasDbPath == FALSE

(* get_chunk_by_id: the row with this id, or None *)
get_chunk_by_id(chunk_id) ==
    IF \E i \in 1 .. Len(db_chunks) : db_chunks[i].id = chunk_id
    THEN Some(db_chunks[CHOOSE i \in 1 .. Len(db_chunks) : db_chunks[i].id = chunk_id])
    ELSE None

(* the rows of document document_id with chunk_index in lo .. hi, in       *)
(* ascending order of chunk_index: the SELECT of lines 227-237             *)
RECURSIVE ContextRows(_, _, _)
ContextRows(document_id, lo, hi) ==
    IF lo > hi THEN <<>>
    ELSE LET hits == SelectSeq(db_chunks, LAMBDA r : r.document_id = document_id
                                                      /\ r.chunk_index = lo)
         IN  [i \in 1 .. Len(hits) |->
                 [chunk_index |-> hits[i].chunk_index,
                  content |-> hits[i].content,
                  start_position |-> hits[i].start_position,
                  end_position |-> hits[i].end_position]]
             \o ContextRows(document_id, lo + 1, hi)

(* get_document_context(chunk_id, context_size): {} is the empty function; *)
(* reading self.db_manager.db_path raises AttributeError inside the try    *)
(* block and the handler of lines 254-256 returns {}                       *)
get_document_context(chunk_id, context_size) ==
    LET chunk == get_chunk_by_id(chunk_id)
    IN  IF chunk.isNone THEN <<>>
        ELSE IF ~HasDbPath THEN <<>>
        ELSE [main_chunk |-> chunk.val,
              context_chunks |->
                  ContextRows(chunk.val.document_id,
                              Max(0, chunk.val.chunk_index - context_size),
                              chunk.val.chunk_index + context_size)]

----------------------------------------------------------------------------
(* The ingestion runs, interleaved at their database commits and reads.    *)
(* A get_document_context call is one step: get_chunk_by_id is its only    *)
(* store read.                                                             *)

ingestRest == <<splitVars, retrVars, threadVars, procVars, appVars>>

InitIngest ==
    /\ processor_model \in BOOLEAN
    /\ documents = <<>>
    /\ db_chunks = <<>>
    /\ files \in [Filenames -> DocContents]
    /\ ipc = [t \in Runs |-> "idle"]
    /\ job = [t \in Runs |-> NoJob]
    /\ context_call = NoContextCall
    /\ context = <<>>
    /\ SplitIdle
    /\ RetrieverIdle
    /\ ThreadsIdle
    /\ AppIdle

(* run t moves to position p with locals j *)
SetRun(t, p, j) ==
    /\ ipc' = [ipc EXCEPT ![t] = p]
    /\ job' = [job EXCEPT ![t] = j]

(* a file of the directory is rewritten *)
WriteFile ==
    /\ context_call = NoContextCall
    /\ \E f \in Filenames, c \in DocContents :
          /\ files[f] # c
          /\ files' = [files EXCEPT ![f] = c]
    /\ UNCHANGED <<documents, db_chunks, ipc, job, context_call, context>>
    /\ UNCHANGED ingestRest

(* process_document lines 125-137: the file is read; a blank file is       *)
(* skipped                                                                 *)
StartProcessDocument(t) ==
    /\ context_call = NoContextCall
    /\ ipc[t] = "idle"
    /\ \E f \in Filenames :
          LET j == [NoJob EXCEPT !.kind = "process_document",
                                 !.filename = f, !.content = files[f]]
          IN  IF Strip(files[f]) = <<>>
              THEN SetRun(t, "done", [j EXCEPT !.returned = "False"])
              ELSE SetRun(t, "insert_document", j)
    /\ UNCHANGED <<documents, db_chunks, files, context_call, context>>
    /\ UNCHANGED ingestRest

(* process_document lines 139-160: insert_document (models.py lines        *)
(* 358-376) commits a new row or, on an IntegrityError, returns None; then *)
(* the text is split and create_embeddings is called                       *)
InsertDocument(t) ==
    /\ context_call = NoContextCall
    /\ ipc[t] = "insert_document"
    /\ LET ins == CommitDocuments(documents, <<[filename |-> job[t].filename,
                                                content |-> job[t].content]>>)
           document_id == IF ins.ok THEN Len(ins.table) ELSE 0
           segments == split_into_chunks(job[t].content)
           j == [job[t] EXCEPT !.document_id = document_id]
       IN  /\ documents' = ins.table
           /\ IF segments = <<>>
              THEN SetRun(t, "done", [j EXCEPT !.returned = "False"])
              ELSE \E encode_ok \in BOOLEAN :
                      LET embeddings == IF processor_model /\ encode_ok
                                        THEN "full" ELSE "empty"
                      IN  IF embeddings = "empty" /\ processor_model
                          THEN SetRun(t, "done", [j EXCEPT !.embeddings = embeddings,
                                                           !.returned = "False"])
                          ELSE SetRun(t, "insert_chunks",
                                      [j EXCEPT !.embeddings = embeddings,
                                                !.all_chunks =
                                                    [i \in 1 .. Len(segments) |->
                                                        ChunkData(document_id, segments[i],
                                                                  embeddings = "full")]])
    /\ UNCHANGED <<db_chunks, files, context_call, context>>
    /\ UNCHANGED ingestRest

(* process_document lines 163-175: one insert_chunk (models.py lines       *)
(* 378-402), committed on its own; a failed insert is rolled back and      *)
(* the loop goes on                                                        *)
InsertChunkStep(t) ==
    /\ context_call = NoContextCall
    /\ ipc[t] = "insert_chunks"
    /\ LET ins == CommitChunks(db_chunks, <<Head(job[t].all_chunks)>>)
           rest == Tail(job[t].all_chunks)
       IN  /\ db_chunks' = ins.table
           /\ SetRun(t, IF rest = <<>> THEN "done" ELSE "insert_chunks",
                     [job[t] EXCEPT !.all_chunks = rest,
                                    !.returned = IF rest = <<>> THEN "True" ELSE "none"])
    /\ UNCHANGED <<documents, files, context_call, context>>
    /\ UNCHANGED ingestRest

(* process_all_documents lines 208-222: the documents without segments are *)
(* read; with none and an empty table the directory is loaded first. The   *)
(* documents fit in one batch of BATCH_SIZE.                               *)
StartProcessAll(t) ==
    /\ context_call = NoContextCall
    /\ ipc[t] = "idle"
    /\ LET unprocessed_docs == get_unprocessed_documents
           j == [NoJob EXCEPT !.kind = "process_all_documents"]
       IN  IF unprocessed_docs # <<>>
           THEN SetRun(t, "batch", [j EXCEPT !.batch = Take(unprocessed_docs, BATCH_SIZE)])
           ELSE IF Len(documents) = 0 THEN SetRun(t, "bulk_scan", j)
           ELSE SetRun(t, "done", [j EXCEPT !.returned = "result"])
    /\ UNCHANGED <<documents, db_chunks, files, context_call, context>>
    /\ UNCHANGED ingestRest

(* bulk_load_documents_from_directory lines 256-284: a file whose name is  *)
(* in the table or whose stripped text is empty is skipped, the others are *)
(* added to the session                                                    *)
BulkScan(t) ==
    /\ context_call = NoContextCall
    /\ ipc[t] = "bulk_scan"
    /\ LET names == SelectSeq(FileOrder, LAMBDA f : /\ ~HasFilename(documents, f)
                                                    /\ Strip(files[f]) # <<>>)
       IN  SetRun(t, "bulk_commit",
                  [job[t] EXCEPT !.batch = [i \in 1 .. Len(names) |->
                                              [filename |-> names[i],
                                               content |-> Strip(files[names[i]])]]])
    /\ UNCHANGED <<documents, db_chunks, files, context_call, context>>
    /\ UNCHANGED ingestRest

(* bulk_load_documents_from_directory lines 295-299: the commit, rolled    *)
(* back as a whole on an IntegrityError                                    *)
BulkCommit(t) ==
    /\ context_call = NoContextCall
    /\ ipc[t] = "bulk_commit"
    /\ documents' = CommitDocuments(documents, job[t].batch).table
    /\ SetRun(t, "reread", [job[t] EXCEPT !.batch = <<>>])
    /\ UNCHANGED <<db_chunks, files, context_call, context>>
    /\ UNCHANGED ingestRest

(* process_all_documents lines 217-220: the second read *)
Reread(t) ==
    /\ context_call = NoContextCall
    /\ ipc[t] = "reread"
    /\ LET unprocessed_docs == get_unprocessed_documents
       IN  IF unprocessed_docs # <<>>
           THEN SetRun(t, "batch", [job[t] EXCEPT !.batch = Take(unprocessed_docs, BATCH_SIZE)])
           ELSE SetRun(t, "done", [job[t] EXCEPT !.returned = "result"])
    /\ UNCHANGED <<documents, db_chunks, files, context_call, context>>
    /\ UNCHANGED ingestRest

(* _process_documents_batch lines 264-299: the segments of the batch are   *)
(* inserted in one transaction (bulk_insert_chunks, models.py lines        *)
(* 328-356); inserted is what bulk_insert_chunks returns, which line 294   *)
(* does not look at                                                        *)
ProcessBatch(t) ==
    /\ context_call = NoContextCall
    /\ ipc[t] = "batch"
    /\ LET all_chunks == BatchChunks(job[t].batch)
           ins == CommitChunks(db_chunks, all_chunks)
       IN  IF all_chunks # <<>>
           THEN /\ db_chunks' = ins.table
                /\ SetRun(t, "embed",
                          [job[t] EXCEPT !.all_chunks = all_chunks,
                                         !.inserted = IF ins.ok THEN "True" ELSE "False"])
           ELSE /\ UNCHANGED db_chunks
                /\ SetRun(t, "done", [job[t] EXCEPT !.returned = "result",
                                                    !.processed = Len(job[t].batch)])
    /\ UNCHANGED <<documents, files, context_call, context>>
    /\ UNCHANGED ingestRest

(* _create_embeddings_for_batch lines 305-351 and the count of lines       *)
(* 236-241: the vectors are written to the rows found by (document_id,     *)
(* chunk_index)                                                            *)
CreateEmbeddingsForBatch(t) ==
    /\ context_call = NoContextCall
    /\ ipc[t] = "embed"
    /\ \E encode_ok \in BOOLEAN :
          LET embeddings == IF processor_model /\ encode_ok THEN "full" ELSE "empty"
              Mine(r) == \E i \in 1 .. Len(job[t].all_chunks) :
                            /\ job[t].all_chunks[i].document_id = r.document_id
                            /\ job[t].all_chunks[i].chunk_index = r.chunk_index
              j == [job[t] EXCEPT !.embeddings = embeddings, !.returned = "result"]
          IN  IF embeddings = "empty" /\ processor_model
              THEN /\ UNCHANGED db_chunks
                   /\ SetRun(t, "done", [j EXCEPT !.failed = Len(job[t].batch)])
              ELSE IF embeddings = "empty"
              THEN /\ UNCHANGED db_chunks
                   /\ SetRun(t, "done", [j EXCEPT !.processed = Len(job[t].batch)])
              ELSE /\ db_chunks' = [i \in 1 .. Len(db_chunks) |->
                                       IF Mine(db_chunks[i])
                                       THEN [db_chunks[i] EXCEPT !.has_embedding = TRUE]
                                       ELSE db_chunks[i]]
                   /\ SetRun(t, "done", [j EXCEPT !.processed = Len(job[t].batch)])
    /\ UNCHANGED <<documents, files, context_call, context>>
    /\ UNCHANGED ingestRest

(* the request of run t is over; its thread takes another request *)
FinishRun(t) ==
    /\ context_call = NoContextCall
    /\ ipc[t] = "done"
    /\ SetRun(t, "idle", NoJob)
    /\ UNCHANGED <<documents, db_chunks, files, context_call, context>>
    /\ UNCHANGED ingestRest

GetDocumentContext ==
    /\ context_call = NoContextCall
    /\ \E chunk_id \in 0 .. MaxChunkId, context_size \in 0 .. MaxContextSize :
          /\ context_call' = [chunk_id |-> chunk_id, context_size |-> context_size,
                              called |-> TRUE]
          /\ context' = get_document_context(chunk_id, context_size)
    /\ UNCHANGED <<documents, db_chunks, files, ipc, job>>
    /\ UNCHANGED ingestRest

(* the get_document_context call returns to its caller *)
ContextReturn ==
    /\ context_call # NoContextCall
    /\ context_call' = NoContextCall
    /\ context' = <<>>
    /\ UNCHANGED <<documents, db_chunks, files, ipc, job>>
    /\ UNCHANGED ingestRest

NextIngest ==
    \/ WriteFile
    \/ GetDocumentContext
    \/ ContextReturn
    \/ \E t \in Runs : StartProcessDocument(t)
    \/ \E t \in Runs : InsertDocument(t)
    \/ \E t \in Runs : InsertChunkStep(t)
    \/ \E t \in Runs : StartProcessAll(t)
    \/ \E t \in Runs : BulkScan(t)
    \/ \E t \in Runs : BulkCommit(t)
    \/ \E t \in Runs : Reread(t)
    \/ \E t \in Runs : ProcessBatch(t)
    \/ \E t \in Runs : CreateEmbeddingsForBatch(t)
    \/ \E t \in Runs : FinishRun(t)

SpecIngest == InitIngest /\ [][NextIngest]_vars

----------------------------------------------------------------------------
(* Properties of the context expander and of ingestion *)

(* the stored segment that the latest get_document_context call names *)
TargetRows == {i \in 1 .. Len(db_chunks) : db_chunks[i].id = context_call.chunk_id}

(* C12, as claimed: for a segment id that is in the store,                 *)
(* get_document_context returns the target segment and the segments of the *)
(* same document with chunk_index in [max(0, index - radius), index +      *)
(* radius], in ascending order of chunk_index.                             *)
C12_ContextWindow ==
    (context_call.called /\ TargetRows # {})
        => LET target == db_chunks[CHOOSE i \in TargetRows : TRUE]
               lo == Max(0, target.chunk_index - context_call.context_size)
               hi == target.chunk_index + context_call.context_size
               InWindow(r) == /\ r.document_id = target.document_id
                              /\ lo <= r.chunk_index
                              /\ r.chunk_index <= hi
           IN  /\ DOMAIN context = {"main_chunk", "context_chunks"}
               /\ context.main_chunk = target
               /\ \A k \in 1 .. (Len(context.context_chunks) - 1) :
                     context.context_chunks[k].chunk_index
                         < context.context_chunks[k + 1].chunk_index
               /\ \A i \in 1 .. Len(db_chunks) :
                     InWindow(db_chunks[i])
                         <=> \E k \in 1 .. Len(context.context_chunks) :
                                /\ context.context_chunks[k].chunk_index
                                      = db_chunks[i].chunk_index
                                /\ context.context_chunks[k].content = db_chunks[i].content
               /\ \A k \in 1 .. Len(context.context_chunks) :
                     \E i \in 1 .. Len(db_chunks) :
                        /\ InWindow(db_chunks[i])
                        /\ db_chunks[i].chunk_index = context.context_chunks[k].chunk_index

(* C13, as claimed: what get_document_context returns for a segment id     *)
(* that is not in the store differs from everything it returns for a       *)
(* segment id that is in the store.                                        *)
C13_NotFoundDistinct ==
    (context_call.called /\ TargetRows = {})
        => \A i \in 1 .. Len(db_chunks), context_size \in 0 .. MaxContextSize :
              context # get_document_context(db_chunks[i].id, context_size)

(* the segments of text are stored for document document_id *)
SegmentsStored(document_id, text) ==
    \A n \in 1 .. Len(split_into_chunks(text)) :
        \E i \in 1 .. Len(db_chunks) :
           /\ db_chunks[i].document_id = document_id
           /\ db_chunks[i].chunk_index = split_into_chunks(text)[n].index
           /\ db_chunks[i].content = split_into_chunks(text)[n].content

(* C15, as claimed: when an ingestion run with a loaded model has got an   *)
(* empty vector batch from a failed embed call, the segments of its        *)
(* documents are in the store once the run has returned, in                *)
(* process_document and in process_all_documents.                          *)
C15_EmbedFailureKeepsSegments ==
    \A t \in Runs :
        (ipc[t] = "done" /\ processor_model /\ job[t].embeddings = "empty")
            => /\ (job[t].kind = "process_document" /\ job[t].document_id # 0)
                     => SegmentsStored(job[t].document_id, job[t].content)
               /\ job[t].kind = "process_all_documents"
                     => \A d \in 1 .. Len(job[t].batch) :
                           SegmentsStored(job[t].batch[d].id, job[t].batch[d].content)

(* C18: no two rows of table document_chunks have the same document_id and *)
(* chunk_index, in every state of two ingestion runs that overlap in time. *)
C18_UniqueChunkIndex ==
    \A i, j \in 1 .. Len(db_chunks) :
        i # j => \/ db_chunks[i].document_id # db_chunks[j].document_id
                 \/ db_chunks[i].chunk_index # db_chunks[j].chunk_index

(* two process_all_documents runs that both read the same document as      *)
(* unprocessed and both went through their segment insertion               *)
C18_Witness ==
    /\ ipc[1] = "done" /\ ipc[2] = "done"
    /\ job[1].kind = "process_all_documents"
    /\ job[2].kind = "process_all_documents"
    /\ job[1].batch # <<>>
    /\ job[1].batch = job[2].batch
    /\ job[1].all_chunks # <<>>
    /\ job[2].all_chunks = job[1].all_chunks
    /\ Len(db_chunks) >= 2

(* C19, as claimed: when insert_document has been called for a filename,   *)
(* table documents holds that filename with the content just passed, also  *)
(* when the filename was in the table before.                              *)
C19_ContentReplaced ==
    [][ \A t \in Runs :
          (ipc[t] = "insert_document" /\ ipc'[t] # "insert_document")
              => \E i \in 1 .. Len(documents') :
                    /\ documents'[i].filename = job[t].filename
                    /\ documents'[i].content = job[t].content ]_vars

----------------------------------------------------------------------------
(* Properties of the window boundary and of the coverage of the text *)

(* the boundary the windowing rule gives the window that starts at s: the  *)
(* last period after s within [e0 - overlap, e0) (the boundary goes just   *)
(* after it), else the last space after s in that range, else the raw      *)
(* boundary e0; a range that would begin before the text begins at 0       *)
PulledBoundary(s) ==
    LET n == Len(cleaned_text)
        e0 == Min(s + EffChunkSize, n)
        range == Max(e0 - EffOverlap, 0) .. (e0 - 1)
        periods == {p \in range : p > s /\ cleaned_text[p + 1] = "."}
        spaces == {p \in range : p > s /\ cleaned_text[p + 1] = " "}
        Last(S) == CHOOSE p \in S : \A q \in S : q <= p
    IN  IF e0 < n
        THEN IF periods # {} THEN Last(periods) + 1
             ELSE IF spaces # {} THEN Last(spaces)
             ELSE e0
        ELSE e0

(* C21, as claimed: every emitted segment ends at the boundary pulled back *)
(* to the last period, else the last space, of [end - overlap, end), also  *)
(* when overlap is larger than end.                                        *)
C21_BoundaryPulledBack ==
    (chunk_size > 0 /\ overlap > 0)
        => \A i \in 1 .. Len(chunks) :
              chunks[i].end_position = PulledBoundary(chunks[i].start_position)

(* C24, as claimed: when a call with chunk_size >= 1 and overlap >= 1 has  *)
(* returned, every non-blank position of the cleaned text lies in the      *)
(* window [start_position, end_position) of an emitted segment.            *)
C24_NoTextLost ==
    (pc = "done" /\ chunk_size > 0 /\ overlap > 0)
        => \A p \in 0 .. (Len(cleaned_text) - 1) :
              cleaned_text[p + 1] # " "
                  => \E i \in 1 .. Len(chunks) :
                        /\ chunks[i].start_position <= p
                        /\ p < chunks[i].end_position

(* C25, as claimed: no segment is emitted after a segment whose window     *)
(* reached the end of the cleaned text, and no emitted window lies         *)
(* entirely inside the window of an earlier emitted segment.               *)
C25_NoRedundantSegment ==
    (chunk_size > 0 /\ overlap > 0)
        => \A i \in 1 .. Len(chunks) : \A j \in (i + 1) .. Len(chunks) :
              /\ chunks[i].end_position < Len(cleaned_text)
              /\ ~ (/\ chunks[i].start_position <= chunks[j].start_position
                    /\ chunks[j].end_position <= chunks[i].end_position)

(* C30, as claimed: in a call with overlap = 0 the windows do not overlap, *)
(* each iteration moves start to the end of the window it just cut.        *)
C30_ZeroOverlapHonoured ==
    [][(SplitIteration /\ chunk_size > 0 /\ overlap = 0) => start' = end']_vars

----------------------------------------------------------------------------
(* Properties of the cache layout and of the query results *)

(* C22: whenever the vector matrix is present the metadata list is present *)
(* too, has as many rows as the matrix, and row i of the matrix is the     *)
(* stored vector of the segment that row i of the metadata describes.      *)
C22_MatrixAligned ==
    ~embeddings_cache.isNone =>
        /\ ~chunks_cache.isNone
        /\ Len(chunks_cache.val) = Len(embeddings_cache.val)
        /\ \A i \in 1 .. Len(embeddings_cache.val) :
              \E j \in 1 .. Len(store) :
                  /\ store[j].id = chunks_cache.val[i].id
                  /\ store[j].embedding = Some(embeddings_cache.val[i])

(* a lexical query has just run on a loaded matrix while the store also    *)
(* holds a segment that the matrix does not cover                          *)
C22_Witness ==
    /\ call.name = "search_by_keywords"
    /\ ~embeddings_cache.isNone
    /\ Len(embeddings_cache.val) >= 1
    /\ Len(store) > Len(embeddings_cache.val)
    /\ result # <<>>

(* the query of the call repeats a token (after lower-casing) *)
RepeatsToken == Len(call.query) > Cardinality(Tokens(call.query))

(* C23, as claimed: a score of search_by_keywords exceeds 1 when the query *)
(* repeats a token; stated for the segments where the score is largest,    *)
(* those that contain every token of the query.                            *)
C23_ExceedsOne ==
    (call.name = "search_by_keywords" /\ RepeatsToken)
        => \A n \in 1 .. Len(result) :
              (Tokens(call.query) \subseteq Tokens(result[n].content))
                  => result[n].keyword_score > SCALE

(* C23, amended: the query's tokens are collapsed to a set before scoring, *)
(* so every score search_by_keywords returns is above 0 and at most 1      *)
(* (SCALE), and for a query that repeats a token the score is the number   *)
(* of matched tokens over the number of distinct query tokens, not over    *)
(* the number of query tokens.                                             *)
C23_AtMostOne ==
    (call.name = "search_by_keywords")
        => \A n \in 1 .. Len(result) :
              /\ 0 < result[n].keyword_score
              /\ result[n].keyword_score <= SCALE
              /\ RepeatsToken
                    => /\ result[n].keyword_score * Cardinality(Tokens(call.query))
                             = Cardinality(result[n].matched_words) * SCALE
                       /\ result[n].keyword_score * Len(call.query)
                             # Cardinality(result[n].matched_words) * SCALE

(* a lexical search whose query is one token written twice returned a      *)
(* segment that contains it, with score exactly 1                          *)
C23_Witness ==
    /\ call.name = "search_by_keywords"
    /\ RepeatsToken
    /\ \E n \in 1 .. Len(result) :
          /\ Tokens(call.query) \subseteq Tokens(result[n].content)
          /\ result[n].keyword_score = SCALE

QueryNames == {"search_similar_chunks", "search_by_keywords", "hybrid_search"}

(* the cache that the query method `name` reads is loaded: the row list,   *)
(* and for a method that ranks by vectors the matrix too                   *)
CacheLoaded(name) ==
    /\ ~chunks_cache.isNone
    /\ (name # "search_by_keywords" /\ embedding_model) => ~embeddings_cache.isNone

(* C29: a query made on a loaded cache leaves the row list and the matrix  *)
(* as they were, and after any query every cache row holds the segment     *)
(* fields only, none of similarity_score, keyword_score, matched_words,    *)
(* final_score.                                                            *)
C29_QueriesLeaveCache ==
    [][(call = NoCall /\ call'.name \in QueryNames)
          => /\ CacheLoaded(call'.name)
                   => /\ chunks_cache' = chunks_cache
                      /\ embeddings_cache' = embeddings_cache
             /\ ~chunks_cache'.isNone
                   => \A i \in 1 .. Len(chunks_cache'.val) :
                         DOMAIN chunks_cache'.val[i] = {"id", "content"}
             /\ ~embeddings_cache'.isNone
                   => \A i \in 1 .. Len(embeddings_cache'.val) :
                         embeddings_cache'.val[i] \in Vectors]_vars

(* a hybrid_search that returned fused rows from a cache loaded before the *)
(* store received its latest segment with a vector                         *)
C29_Witness ==
    /\ call.name = "hybrid_search"
    /\ ~embeddings_cache.isNone
    /\ Cardinality({i \in 1 .. Len(store) : ~store[i].embedding.isNone})
          > Len(embeddings_cache.val)
    /\ \E n \in 1 .. Len(result) :
          /\ "similarity_score" \in DOMAIN result[n]
          /\ "matched_words" \in DOMAIN result[n]
          /\ "final_score" \in DOMAIN result[n]

----------------------------------------------------------------------------
(* Properties of the counts and of the repetition of process_all_documents *)

(* C26, as claimed: when a process_all_documents run has counted its batch *)
(* as processed, the segments of every document of the batch are in the    *)
(* store, and the run's bulk_insert_chunks did not fail: a batch whose     *)
(* insertion was rolled back is counted as failed.                         *)
C26_ProcessedMeansPersisted ==
    \A t \in Runs :
        (ipc[t] = "done" /\ job[t].kind = "process_all_documents")
            => /\ job[t].processed > 0
                     => \A d \in 1 .. Len(job[t].batch) :
                           SegmentsStored(job[t].batch[d].id, job[t].batch[d].content)
               /\ job[t].inserted = "False"
                     => /\ job[t].processed = 0
                        /\ job[t].failed = Len(job[t].batch)

(* Ingestion runs one after the other, on a document set that no longer    *)
(* changes once a process_all_documents run has returned: request thread 1 *)
(* serves process_document and process_all_documents requests, with file   *)
(* writes between them, up to its first process_all_documents run; when    *)
(* that run has returned, request thread 2 serves process_all_documents    *)
(* requests only.                                                          *)
FirstDone == ipc[1] = "done" /\ job[1].kind = "process_all_documents"

Turn(t) == IF FirstDone THEN t = 2 ELSE t = 1

NextRerun ==
    \/ ~FirstDone /\ ipc[1] = "idle" /\ WriteFile
    \/ \E t \in Runs : Turn(t) /\ ~FirstDone /\ StartProcessDocument(t)
    \/ \E t \in Runs : Turn(t) /\ InsertDocument(t)
    \/ \E t \in Runs : Turn(t) /\ InsertChunkStep(t)
    \/ \E t \in Runs : Turn(t) /\ StartProcessAll(t)
    \/ \E t \in Runs : Turn(t) /\ BulkScan(t)
    \/ \E t \in Runs : Turn(t) /\ BulkCommit(t)
    \/ \E t \in Runs : Turn(t) /\ Reread(t)
    \/ \E t \in Runs : Turn(t) /\ ProcessBatch(t)
    \/ \E t \in Runs : Turn(t) /\ CreateEmbeddingsForBatch(t)
    \/ \E t \in Runs : Turn(t) /\ FinishRun(t)

SpecRerun == InitIngest /\ [][NextRerun]_vars

(* the documents of the table that have no segment in the store *)
WithoutSegments ==
    SelectSeq(documents,
              LAMBDA d : ~ \E i \in 1 .. Len(db_chunks) : db_chunks[i].document_id = d.id)

(* C28: a process_all_documents run made after a completed run, on an      *)
(* unchanged document set, selects exactly the documents that have no      *)
(* segment, and none of its steps inserts a segment or changes a stored    *)
(* segment or vector.                                                      *)
C28_RerunChangesNothing ==
    [][FirstDone
          => /\ db_chunks' = db_chunks
             /\ (ipc[2] # "batch" /\ ipc'[2] = "batch")
                   => job'[2].batch = WithoutSegments]_vars

(* a second run has returned after a first run that inserted its segments  *)
(* and failed at the embedding step                                        *)
C28_Witness ==
    /\ FirstDone
    /\ job[1].failed > 0
    /\ db_chunks # <<>>
    /\ \E i \in 1 .. Len(db_chunks) : ~db_chunks[i].has_embedding
    /\ ipc[2] = "done"
    /\ job[2].kind = "process_all_documents"

----------------------------------------------------------------------------
(* Lazy initialization of the retrieval objects: app.py lines 65-94, run   *)
(* by request threads that interleave at their reads and writes of the     *)
(* globals                                                                 *)

appRest == <<splitVars, retrVars, threadVars, procVars, ingestVars>>

InitApp ==
    /\ AppIdle
    /\ SplitIdle
    /\ RetrieverIdle
    /\ ThreadsIdle
    /\ ProcessorIdle
    /\ IngestIdle

(* thread t moves to position p *)
Goto(t, p) == apc' = [apc EXCEPT ![t] = p]

(* thread t returns value v from ensure_rag_initialized to its handler *)
ReturnToHandler(t, v) ==
    /\ apc' = [apc EXCEPT ![t] = "handler"]
    /\ ensure_result' = [ensure_result EXCEPT ![t] = v]

(* a request arrives and its handler calls ensure_rag_initialized: lines   *)
(* 128-129                                                                 *)
Request(t) ==
    /\ apc[t] = "idle"
    /\ Goto(t, "ensure")
    /\ UNCHANGED <<rag_initialized, rag_initializing, doc_processor, retriever,
                   ensure_result, constructed>>
    /\ UNCHANGED appRest

(* ensure_rag_initialized: lines 92-94 *)
EnsureTest(t) ==
    /\ apc[t] = "ensure"
    /\ IF ~rag_initialized
       THEN Goto(t, "initialize") /\ UNCHANGED ensure_result
       ELSE ReturnToHandler(t, "True")
    /\ UNCHANGED <<rag_initialized, rag_initializing, doc_processor, retriever, constructed>>
    /\ UNCHANGED appRest

(* initialize_rag_system: lines 69-70 *)
InitializeTest(t) ==
    /\ apc[t] = "initialize"
    /\ IF rag_initialized \/ rag_initializing
       THEN ReturnToHandler(t, "True")
       ELSE Goto(t, "set_initializing") /\ UNCHANGED ensure_result
    /\ UNCHANGED <<rag_initialized, rag_initializing, doc_processor, retriever, constructed>>
    /\ UNCHANGED appRest

(* line 73 *)
SetInitializing(t) ==
    /\ apc[t] = "set_initializing"
    /\ rag_initializing' = TRUE
    /\ Goto(t, "new_processor")
    /\ UNCHANGED <<rag_initialized, doc_processor, retriever, ensure_result, constructed>>
    /\ UNCHANGED appRest

(* line 77: DocumentProcessor(db_manager); its constructor raises when the *)
(* tokenizer cannot be loaded (processor.py line 31), and the handler of   *)
(* lines 84-88 clears rag_initializing and returns False                   *)
NewProcessor(t) ==
    /\ apc[t] = "new_processor"
    /\ \E raised \in BOOLEAN :
          IF raised
          THEN /\ rag_initializing' = FALSE
               /\ ReturnToHandler(t, "False")
               /\ UNCHANGED <<doc_processor, constructed>>
          ELSE /\ doc_processor' = t
               /\ constructed' = [constructed EXCEPT !.DocumentProcessor = @ + 1]
               /\ Goto(t, "new_retriever")
               /\ UNCHANGED <<rag_initializing, ensure_result>>
    /\ UNCHANGED <<rag_initialized, retriever>>
    /\ UNCHANGED appRest

(* line 78: DocumentRetriever(db_manager) *)
NewRetriever(t) ==
    /\ apc[t] = "new_retriever"
    /\ retriever' = t
    /\ constructed' = [constructed EXCEPT !.DocumentRetriever = @ + 1]
    /\ Goto(t, "set_initialized")
    /\ UNCHANGED <<rag_initialized, rag_initializing, doc_processor, ensure_result>>
    /\ UNCHANGED appRest

(* line 80 *)
SetInitialized(t) ==
    /\ apc[t] = "set_initialized"
    /\ rag_initialized' = TRUE
    /\ Goto(t, "clear_initializing")
    /\ UNCHANGED <<rag_initializing, doc_processor, retriever, ensure_result, constructed>>
    /\ UNCHANGED appRest

(* lines 81-83 *)
ClearInitializing(t) ==
    /\ apc[t] = "clear_initializing"
    /\ rag_initializing' = FALSE
    /\ ReturnToHandler(t, "True")
    /\ UNCHANGED <<rag_initialized, doc_processor, retriever, constructed>>
    /\ UNCHANGED appRest

(* the handler goes on with what ensure_rag_initialized returned (lines    *)
(* 129-140) and the request ends                                           *)
Respond(t) ==
    /\ apc[t] = "handler"
    /\ apc' = [apc EXCEPT ![t] = "idle"]
    /\ ensure_result' = [ensure_result EXCEPT ![t] = "none"]
    /\ UNCHANGED <<rag_initialized, rag_initializing, doc_processor, retriever, constructed>>
    /\ UNCHANGED appRest

NextApp ==
    \/ \E t \in Requests : Request(t)
    \/ \E t \in Requests : EnsureTest(t)
    \/ \E t \in Requests : InitializeTest(t)
    \/ \E t \in Requests : SetInitializing(t)
    \/ \E t \in Requests : NewProcessor(t)
    \/ \E t \in Requests : NewRetriever(t)
    \/ \E t \in Requests : SetInitialized(t)
    \/ \E t \in Requests : ClearInitializing(t)
    \/ \E t \in Requests : Respond(t)

SpecApp == InitApp /\ [][NextApp]_vars

(* C27, as claimed: whenever ensure_rag_initialized has returned True to a *)
(* request handler the globals retriever and doc_processor are not None,   *)
(* and at most one DocumentProcessor and one DocumentRetriever are ever    *)
(* constructed.                                                            *)
C27_InitializedOnce ==
    /\ \A t \in Requests :
          ensure_result[t] = "True" => (retriever # 0 /\ doc_processor # 0)
    /\ constructed.DocumentProcessor <= 1
    /\ constructed.DocumentRetriever <= 1

====
